---- MODULE Spec2Model ----
(***************************************************************************)
(* PixelCheck: extraction of structural groups from design trees, their    *)
(* cross-platform reconciliation, and the debounced, batched AI matcher.   *)
(*                                                                         *)
(* JavaScript strings are sequences of one-character strings, so that      *)
(* toLowerCase, includes, trim and template concatenation are computed.    *)
(***************************************************************************)
EXTENDS Integers, Sequences, FiniteSets, TLC

VARIABLES
    \* ---- ai-matcher.js module state and its observers
    comparisonQueue,   \* const comparisonQueue = []            (ai-matcher.js:99)
    flushTimer,        \* let flushTimer = null                 (ai-matcher.js:100)
    timers,            \* timeouts set by setTimeout and not yet fired
    timerSeq,          \* number of timeouts created so far (= debounce windows opened)
    promises,          \* one record per call of areComponentsSimilar, in call order
    oracleLog,         \* one record per batchStructuralMatch call that reached the oracle
    \* ---- analysis of three documents (extractFeatures x3, then compareFeatures)
    docs,              \* the three platform documents
    features,          \* extractFeatures output per platform
    results,           \* compareFeatures output
    pcA,               \* "start" | "done"
    \* ---- the three extraction modes run on one tree
    tree,              \* the design tree
    structOut,         \* part_010 extractFeatures(tree)
    flatOut,           \* part_008 extractFeatures(tree)
    hierOut,           \* hierarchical-extractor.js extractHierarchicalFeatures(tree)
    pcX,               \* the extraction modes that have run on the tree
    rerunOut,          \* mode -> output of a second run on the same tree
    enhOut,            \* analyzerEnhanced.js extractFeatures(tree)
    thrown,            \* the extraction modes whose run ended in a TypeError
    \* ---- the bot's sessions (bot-handler.js, test-simple.js)
    userSessions,      \* const userSessions = new Map()       (bot-handler.js:30)
    response,          \* what the last request was answered with
    jobs               \* the background analyses of /bot/parse-and-analyze, in
                       \* the order of their requests  (test-simple.js:429)

matcherVars == <<comparisonQueue, flushTimer, timers, timerSeq, promises, oracleLog>>
analyzeVars == <<docs, features, results, pcA>>
extractVars == <<tree, structOut, flatOut, hierOut, pcX, rerunOut, enhOut, thrown>>
uploadVars == <<userSessions, response, jobs>>
vars == <<comparisonQueue, flushTimer, timers, timerSeq, promises, oracleLog,
          docs, features, results, pcA, tree, structOut, flatOut, hierOut, pcX,
          rerunOut, enhOut, thrown, userSessions, response, jobs>>

(***************************************************************************)
(* Bounds                                                                  *)
(***************************************************************************)
MaxCalls == 3        \* calls of areComponentsSimilar in one run
MaxWidgets == 2      \* top-level widgets per platform document
MaxChain == 17       \* deepest single-child nesting of the extraction trees
MaxJobs == 3         \* requests to /bot/parse-and-analyze in one run

(***************************************************************************)
(* JavaScript string primitives                                            *)
(***************************************************************************)
UpperChars == <<"A","B","C","D","E","F","G","H","I","J","K","L","M",
                "N","O","P","Q","R","S","T","U","V","W","X","Y","Z">>
LowerChars == <<"a","b","c","d","e","f","g","h","i","j","k","l","m",
                "n","o","p","q","r","s","t","u","v","w","x","y","z">>

LowerChar(c) ==
    IF \E i \in 1..Len(UpperChars) : UpperChars[i] = c
    THEN LowerChars[CHOOSE i \in 1..Len(UpperChars) : UpperChars[i] = c]
    ELSE c

\* String.prototype.toLowerCase
ToLowerCase(s) == [i \in 1..Len(s) |-> LowerChar(s[i])]

\* String.prototype.includes
Includes(s, sub) ==
    \E i \in 0..(Len(s) - Len(sub)) : SubSeq(s, i + 1, i + Len(sub)) = sub

\* String.prototype.startsWith
StartsWith(s, pre) == Len(s) >= Len(pre) /\ SubSeq(s, 1, Len(pre)) = pre

IsSpace(c) == c = " "

\* String.prototype.trim
Trim(s) ==
    LET keep == {i \in 1..Len(s) : ~IsSpace(s[i])}
    IN  IF keep = {} THEN <<>>
        ELSE SubSeq(s, CHOOSE i \in keep : \A j \in keep : i <= j,
                       CHOOSE i \in keep : \A j \in keep : i >= j)

Digits == <<"0","1","2","3","4","5","6","7","8","9">>

\* template-literal rendering of a non-negative integer
RECURSIVE NumToStr(_)
NumToStr(n) ==
    IF n < 10 THEN <<Digits[n + 1]>>
    ELSE NumToStr(n \div 10) \o <<Digits[(n % 10) + 1]>>

\* the distinct elements in first-seen order ([...new Set(seq)], Object keys)
RECURSIVE Dedup(_)
Dedup(seq) ==
    IF seq = <<>> THEN <<>>
    ELSE LET rest == Dedup(SubSeq(seq, 1, Len(seq) - 1))
             last == seq[Len(seq)]
         IN  IF \E i \in 1..Len(rest) : rest[i] = last THEN rest
             ELSE Append(rest, last)

Max3(a, b, c) ==
    LET m == IF a >= b THEN a ELSE b
    IN  IF m >= c THEN m ELSE c

\* ---- names used by the models
sSearchBar == <<"S","e","a","r","c","h"," ","B","a","r">>
sSearchIcon == <<"S","e","a","r","c","h"," ","I","c","o","n">>
sSearchInput == <<"S","e","a","r","c","h"," ","I","n","p","u","t">>
sCard == <<"C","a","r","d">>
sCardLower == <<"c","a","r","d">>
sMenu == <<"M","e","n","u">>

(***************************************************************************)
(* Structural group construction (part_010 extractFeatures, lines 25-37)   *)
(***************************************************************************)
\* signature: `T${textCount}B${buttonCount}`
Signature(textCount, buttonCount) ==
    <<"T">> \o NumToStr(textCount) \o <<"B">> \o NumToStr(buttonCount)

SemanticMap == <<
    [category |-> "search",
     terms |-> {<<"s","e","a","r","c","h">>, <<"f","i","n","d">>,
                <<"q","u","e","r","y">>, <<"l","o","o","k","u","p">>}],
    [category |-> "notification",
     terms |-> {<<"b","e","l","l">>, <<"n","o","t","i","f","i","c","a","t","i","o","n">>,
                <<"a","l","e","r","t">>, <<"n","o","t","i","f","y">>}],
    [category |-> "user",
     terms |-> {<<"u","s","e","r">>, <<"p","r","o","f","i","l","e">>,
                <<"a","c","c","o","u","n","t">>, <<"a","v","a","t","a","r">>}],
    [category |-> "menu",
     terms |-> {<<"m","e","n","u">>, <<"h","a","m","b","u","r","g","e","r">>,
                <<"n","a","v">>, <<"d","r","a","w","e","r">>}],
    [category |-> "filter",
     terms |-> {<<"f","i","l","t","e","r">>, <<"s","o","r","t">>,
                <<"r","e","f","i","n","e">>}],
    [category |-> "location",
     terms |-> {<<"l","o","c","a","t","i","o","n">>, <<"m","a","p">>, <<"p","i","n">>,
                <<"m","a","r","k","e","r">>, <<"g","p","s">>}],
    [category |-> "time",
     terms |-> {<<"t","i","m","e">>, <<"c","l","o","c","k">>,
                <<"s","c","h","e","d","u","l","e">>, <<"c","a","l","e","n","d","a","r">>}],
    [category |-> "favorite",
     terms |-> {<<"f","a","v","o","r","i","t","e">>, <<"h","e","a","r","t">>,
                <<"l","i","k","e">>, <<"b","o","o","k","m","a","r","k">>,
                <<"s","t","a","r">>}] >>

\* extractSemanticKeywords(name): the categories one of whose terms the
\* lower-cased name includes (the array's order plays no part in its uses).
extractSemanticKeywords(name) ==
    LET normalized == ToLowerCase(name)
    IN  {SemanticMap[i].category : i \in
            {j \in 1..Len(SemanticMap) :
                \E term \in SemanticMap[j].terms : Includes(normalized, term)}}

\* the object pushed onto features.groups
MakeGroup(name, id, type, textCount, buttonCount, total) ==
    [name |-> name, id |-> id, type |-> type,
     recipe |-> [text |-> textCount, buttons |-> buttonCount, total |-> total],
     signature |-> Signature(textCount, buttonCount),
     semanticKeywords |-> extractSemanticKeywords(name)]

(***************************************************************************)
(* Design trees                                                            *)
(***************************************************************************)
\* A DesignNode; a field the JSON leaves out is the empty string or list.
Node(type, name, id, characters, children) ==
    [type |-> type, name |-> name, id |-> id, characters |-> characters,
     children |-> children]

\* null / undefined where a node is expected
NullNode == Node("<null>", <<>>, 0, <<>>, <<>>)

sButton == <<"b","u","t","t","o","n">>
sBtn == <<"b","t","n">>
sCta == <<"c","t","a">>
sAction == <<"a","c","t","i","o","n">>

(***************************************************************************)
(* Structural extraction (unnamed/part_010, analyzer-node.js)              *)
(***************************************************************************)
\* only frames are containers
FrameOnly == {"FRAME"}

ContainerTypes == {"FRAME", "GROUP", "COMPONENT", "INSTANCE"}

\* lines 14-18: a child counts as a button by its name
IsButtonChild(c) ==
    LET n == ToLowerCase(c.name)
    IN  Includes(n, sButton) \/ Includes(n, sBtn) \/ Includes(n, sCta)


\* every container is tracked as a group
IsMeaningfulGroupAlways(node) == TRUE

\* a group is tracked from one child on
IsMeaningfulGroupFromOne(node) ==
    Len(node.children) >= 1 \/ node.type = "COMPONENT" \/ node.type = "INSTANCE"

\* line 21
IsMeaningfulGroup(node) ==
    Len(node.children) > 1 \/ node.type = "COMPONENT" \/ node.type = "INSTANCE"

\* lines 11-39
GroupsOfNode(node) ==
    IF node.type \in ContainerTypes /\ IsMeaningfulGroup(node)
    THEN <<MakeGroup(IF node.name # <<>> THEN node.name
                     ELSE <<"U","n","n","a","m","e","d"," ","G","r","o","u","p">>,
                     node.id, node.type,
                     Len(SelectSeq(node.children, LAMBDA c : c.type = "TEXT")),
                     Len(SelectSeq(node.children, IsButtonChild)),
                     Len(node.children))>>
    ELSE <<>>

\* lines 42-50
TextsOfNode(node) ==
    IF node.type = "TEXT" /\ node.characters # <<>> /\ Trim(node.characters) # <<>>
    THEN <<[name |-> IF node.name # <<>> THEN node.name
                     ELSE SubSeq(node.characters, 1,
                                 IF Len(node.characters) < 30
                                 THEN Len(node.characters) ELSE 30),
            text |-> node.characters, id |-> node.id]>>
    ELSE <<>>

\* lines 53-61
ButtonsOfNode(node) ==
    LET nodeName == ToLowerCase(node.name)
    IN  IF /\ \E keyword \in {sButton, sBtn, sCta, sAction} : Includes(nodeName, keyword)
           /\ node.type # "TEXT"
        THEN <<[name |-> node.name, id |-> node.id, type |-> node.type]>>
        ELSE <<>>

EmptyFeatures == [text |-> <<>>, buttons |-> <<>>, groups |-> <<>>]

\* extractFeatures(node, features), lines 6-69: the node first, then its
\* children in order, with no limit on the depth
RECURSIVE extractFeatures(_, _)
RECURSIVE extractFeaturesEach(_, _)
extractFeatures(node, feats) ==
    IF node = NullNode THEN feats
    ELSE extractFeaturesEach(node.children,
            [text |-> feats.text \o TextsOfNode(node),
             buttons |-> feats.buttons \o ButtonsOfNode(node),
             groups |-> feats.groups \o GroupsOfNode(node)])

extractFeaturesEach(nodes, feats) ==
    IF nodes = <<>> THEN feats
    ELSE extractFeaturesEach(Tail(nodes), extractFeatures(Head(nodes), feats))

(***************************************************************************)
(* Flat extraction (unnamed/part_008, the browser analyzer)                *)
(***************************************************************************)
ButtonVerbs ==
    {<<"s","i","g","n"," ","i","n">>, <<"s","i","g","n"," ","u","p">>,
     <<"l","o","g","i","n">>, <<"r","e","g","i","s","t","e","r">>,
     <<"s","u","b","m","i","t">>, <<"c","o","n","t","i","n","u","e">>,
     <<"n","e","x","t">>, <<"b","a","c","k">>, <<"c","a","n","c","e","l">>}

IconPatterns ==
    {<<"h","e","r","o","i","c","o","n","s">>,
     <<"m","a","t","e","r","i","a","l","-","s","y","m","b","o","l","s">>,
     <<"m","a","t","e","r","i","a","l","-","i","c","o","n","s">>,
     <<"f","e","a","t","h","e","r">>,
     <<"f","o","n","t","a","w","e","s","o","m","e">>,
     <<"i","c","o","n">>,
     <<"/","h","o","m","e">>, <<"/","h","e","a","r","t">>, <<"/","m","a","p">>,
     <<"/","e","x","p","l","o","r","e">>, <<"/","s","e","a","r","c","h">>,
     <<"/","f","i","l","t","e","r">>, <<"/","m","e","n","u">>,
     <<"/","p","r","o","f","i","l","e">>, <<"/","s","e","t","t","i","n","g","s">>}

\* lines 77-98
isIconComponent(name) ==
    \E pattern \in IconPatterns : Includes(ToLowerCase(name), pattern)

\* lines 100-114; the pattern is anchored, and is tested on the text as given
classifyTextElement(text, nodeName) ==
    LET lowerText == ToLowerCase(text)
        lowerNodeName == ToLowerCase(nodeName)
    IN  IF Includes(lowerNodeName, sButton) \/ Includes(lowerNodeName, sBtn)
        THEN "BUTTON"
        ELSE IF lowerText \in ButtonVerbs THEN "BUTTON"
        ELSE "TEXT"

\* lines 116-124
classifyComponent(componentName) ==
    LET lower == ToLowerCase(componentName)
    IN  IF Includes(lower, sButton) \/ Includes(lower, sBtn) THEN "BUTTON" ELSE "OTHER"

\* lines 126-134
classifyGroup(groupName) ==
    LET lower == ToLowerCase(groupName)
    IN  IF Includes(lower, <<"(">> \o sButton \o <<")">>)
           \/ Includes(lower, sButton) \/ Includes(lower, sBtn)
        THEN "BUTTON" ELSE "OTHER"

\* lines 15-68: the features one node adds (the JSON text of {name, type} is
\* kept as the record it encodes)
FlatFeaturesOfNode(node) ==
    LET nodeName == node.name
        hasChildren == Len(node.children) > 0
    IN  IF node.type = "TEXT"
        THEN IF Trim(node.characters) # <<>>
             THEN {[name |-> Trim(node.characters),
                    type |-> classifyTextElement(node.characters, nodeName)]}
             ELSE {}
        ELSE IF node.type = "COMPONENT" \/ node.type = "INSTANCE"
        THEN IF Trim(nodeName) # <<>>
             THEN {[name |-> nodeName, type |-> classifyComponent(nodeName)]}
             ELSE {}
        ELSE IF node.type = "GROUP" \/ node.type = "FRAME"
        THEN IF Trim(nodeName) # <<>> /\ (isIconComponent(nodeName) \/ ~hasChildren)
             THEN LET type == IF isIconComponent(nodeName) THEN "ICON"
                              ELSE classifyGroup(nodeName)
                  IN  IF type # "OTHER" THEN {[name |-> nodeName, type |-> type]}
                      ELSE {}
             ELSE {}
        ELSE {}

EmptyFlat == [text |-> {}, buttons |-> {}, all |-> {}]

\* traverse(node, features), lines 12-74: no limit on the depth
RECURSIVE traverse(_, _)
RECURSIVE traverseEach(_, _)
traverse(node, feats) ==
    IF node = NullNode THEN feats
    ELSE LET new == FlatFeaturesOfNode(node)
         IN  traverseEach(node.children,
                [text |-> feats.text \cup {f \in new : f.type # "BUTTON"},
                 buttons |-> feats.buttons \cup {f \in new : f.type = "BUTTON"},
                 all |-> feats.all \cup new])

traverseEach(nodes, feats) ==
    IF nodes = <<>> THEN feats
    ELSE traverseEach(Tail(nodes), traverse(Head(nodes), feats))

\* extractFeatures(documentNode), lines 1-10
extractFeaturesFlat(documentNode) == traverse(documentNode, EmptyFlat)

(***************************************************************************)
(* Hierarchical extraction (src/utils/hierarchical-extractor.js)           *)
(***************************************************************************)
MaxDepth == 15
MaxCardDepth == 10

sIcon == <<"i","c","o","n">>
sUnnamed == <<"U","n","n","a","m","e","d">>

\* lines 49-58
isIcon(node) ==
    LET name == ToLowerCase(node.name)
    IN  \/ Includes(name, sIcon)
        \/ Includes(name, <<":">>)
        \/ Includes(name, <<"/">>)
        \/ Includes(name, <<"m","y","n","a","i">>)
        \/ (node.type = "INSTANCE" /\ (Includes(name, sIcon) \/ Includes(name, <<":">>)))

\* lines 63-66
isButton(node) ==
    LET name == ToLowerCase(node.name)
    IN  Includes(name, sButton) \/ Includes(name, sBtn) \/ Includes(name, sCta)

\* lines 21-34
ComponentTypeOf(node) ==
    IF node.type = "TEXT" THEN "text"
    ELSE IF isIcon(node) THEN "icon"
    ELSE IF isButton(node) THEN "button"
    ELSE IF node.type = "FRAME" \/ node.type = "GROUP" THEN "container"
    ELSE IF node.type = "INSTANCE" THEN "instance"
    ELSE "none"

NoStructure == [type |-> "<null>", name |-> <<>>, id |-> 0, depth |-> 0,
                componentType |-> "none", children |-> <<>>]

\* extractDetailedHierarchy(node, depth, maxDepth), lines 10-44; a child
\* beyond maxDepth yields null and is filtered out
RECURSIVE extractDetailedHierarchy(_, _, _)
extractDetailedHierarchy(node, depth, maxDepth) ==
    IF node = NullNode \/ depth > maxDepth THEN NoStructure
    ELSE LET kids == [k \in 1..Len(node.children) |->
                        extractDetailedHierarchy(node.children[k], depth + 1, maxDepth)]
         IN  [type |-> node.type,
              name |-> IF node.name # <<>> THEN node.name ELSE sUnnamed,
              id |-> node.id, depth |-> depth,
              componentType |-> ComponentTypeOf(node),
              children |-> SelectSeq(kids, LAMBDA c : c # NoStructure)]

\* the structures of a subtree, in the order createComponentInventory's
\* traverse visits them (lines 80-119)
RECURSIVE Flatten(_)
RECURSIVE FlattenEach(_)
Flatten(structure) == <<structure>> \o FlattenEach(structure.children)
FlattenEach(structures) ==
    IF structures = <<>> THEN <<>>
    ELSE Flatten(Head(structures)) \o FlattenEach(Tail(structures))

\* createComponentInventory, lines 71-124: the names per category
createComponentInventory(structure) ==
    LET all == Flatten(structure)
        namesOf(kind) ==
            LET sel == SelectSeq(all, LAMBDA n : n.componentType = kind)
            IN  [k \in 1..Len(sel) |-> sel[k].name]
    IN  [texts |-> namesOf("text"), icons |-> namesOf("icon"),
         buttons |-> namesOf("button"), frames |-> namesOf("container"),
         instances |-> namesOf("instance")]

CountOf(seq, x) == Cardinality({k \in 1..Len(seq) : seq[k] = x})

\* countIconsByName, lines 129-141: one entry per name, in first-seen order
countIconsByName(inventory) ==
    LET names == Dedup(inventory.icons)
    IN  [k \in 1..Len(names) |->
            [name |-> names[k], count |-> CountOf(inventory.icons, names[k])]]

\* hasCardPattern, lines 249-258
hasCardPattern(structure) ==
    LET inventory == createComponentInventory(structure)
    IN  /\ structure.children # <<>>
        /\ Len(inventory.texts) > 0
        /\ (Len(inventory.icons) > 0 \/ Len(inventory.buttons) > 0)

\* lines 198-210
isMainFeature(structure) ==
    LET name == ToLowerCase(structure.name)
    IN  /\ structure.type = "FRAME"
        /\ Len(structure.children) >= 2
        /\ \/ Includes(name, <<"c","a","r","d">>)
           \/ Includes(name, <<"i","t","e","m">>)
           \/ Includes(name, <<"s","e","c","t","i","o","n">>)
           \/ Includes(name, <<"h","e","a","d","e","r">>)
           \/ Includes(name, <<"b","a","r">>)
           \/ hasCardPattern(structure)

\* createDetailedString, lines 146-189: the lines after the heading, each a
\* label and a count
createDetailedString(structure, inventory) ==
    LET iconCounts == countIconsByName(inventory)
        iconLines == [k \in 1..Len(iconCounts) |->
                        [label |-> iconCounts[k].name, count |-> iconCounts[k].count]]
        textLines == IF Len(inventory.texts) > 0
                     THEN <<[label |-> <<"T","e","x","t"," ","E","l","e","m","e","n","t","s">>,
                             count |-> Len(inventory.texts)]>>
                     ELSE <<>>
        buttonLines == IF Len(inventory.buttons) > 0
                       THEN <<[label |-> <<"B","u","t","t","o","n","s">>,
                               count |-> Len(inventory.buttons)]>>
                       ELSE <<>>
        frameNames == SelectSeq(inventory.frames,
                         LAMBDA n : /\ n # structure.name
                                    /\ ~StartsWith(n, <<"F","r","a","m","e">>)
                                    /\ ~StartsWith(n, <<"G","r","o","u","p">>))
        distinct == Dedup(frameNames)
        frameLines == [k \in 1..Len(distinct) |->
                        [label |-> <<"F","r","a","m","e",":"," ">> \o distinct[k],
                         count |-> CountOf(frameNames, distinct[k])]]
        genericCount == Len(inventory.frames) - 1 - Len(frameNames)
        genericLines == IF genericCount > 0
                        THEN <<[label |-> <<"O","t","h","e","r"," ","N","e","s","t","e","d",
                                            " ","F","r","a","m","e","s">>,
                                count |-> genericCount]>>
                        ELSE <<>>
    IN  iconLines \o textLines \o buttonLines
            \o (IF Len(inventory.frames) > 1 THEN frameLines \o genericLines ELSE <<>>)

\* the card pushed at lines 218-230 (fullStructure is the structure itself)
CardOf(structure) ==
    LET inventory == createComponentInventory(structure)
    IN  [name |-> structure.name, id |-> structure.id, depth |-> structure.depth,
         inventory |-> [texts |-> Len(inventory.texts),
                        icons |-> countIconsByName(inventory),
                        buttons |-> Len(inventory.buttons),
                        frames |-> Len(inventory.frames),
                        instances |-> Len(inventory.instances)],
         detailedString |-> createDetailedString(structure, inventory)]

\* no return after the push: the children of a card are searched as well
SearchedThroughCard(structure) == structure.children

\* line 234: return cards; nothing inside a card is searched
SearchedInsideCard(structure) == <<>>

\* extractCardsWithDetails(structure, cards, depth), lines 194-244
RECURSIVE extractCardsWithDetails(_, _, _)
RECURSIVE extractCardsEach(_, _, _)
extractCardsWithDetails(structure, cards, depth) ==
    IF structure = NoStructure \/ depth > MaxCardDepth THEN cards
    ELSE LET inventory == createComponentInventory(structure)
         IN  IF /\ isMainFeature(structure)
                /\ (Len(inventory.texts) > 0 \/ Len(inventory.buttons) > 0)
             THEN extractCardsEach(SearchedInsideCard(structure),
                                   Append(cards, CardOf(structure)), depth + 1)
             ELSE extractCardsEach(structure.children, cards, depth + 1)

extractCardsEach(structures, cards, depth) ==
    IF structures = <<>> THEN cards
    ELSE extractCardsEach(Tail(structures),
            extractCardsWithDetails(Head(structures), cards, depth), depth)

\* extractHierarchicalFeatures(figmaDocument), lines 263-288
extractHierarchicalFeatures(figmaDocument) ==
    LET fullTree == extractDetailedHierarchy(figmaDocument, 0, MaxDepth)
    IN  [fullTree |-> fullTree, cards |-> extractCardsWithDetails(fullTree, <<>>, 0)]

(***************************************************************************)
(* Reconciliation (unnamed/part_010 compareFeatures)                       *)
(***************************************************************************)
Platforms == <<"Android", "iOS", "Web">>

\* line 156
getIdentity(g) == g.name \o <<"|">> \o g.signature

IndexOfKey(identities, key) ==
    IF \E i \in 1..Len(identities) : identities[i].key = key
    THEN CHOOSE i \in 1..Len(identities) : identities[i].key = key
    ELSE 0

\* lines 166-177; the Map keeps its keys in insertion order
trackIdentity(identities, platform, group) ==
    LET id == getIdentity(group)
        withId == IF IndexOfKey(identities, id) = 0
                  THEN Append(identities,
                          [key |-> id, name |-> group.name,
                           signature |-> group.signature, recipe |-> group.recipe,
                           counts |-> [Android |-> 0, iOS |-> 0, Web |-> 0]])
                  ELSE identities
        i == IndexOfKey(withId, id)
    IN  [withId EXCEPT ![i].counts[platform] = @ + 1]

RECURSIVE trackAll(_, _, _)
trackAll(identities, platform, groups) ==
    IF groups = <<>> THEN identities
    ELSE trackAll(trackIdentity(identities, platform, Head(groups)), platform,
                  Tail(groups))

\* x.semanticKeywords || []
\* the keywords of the name where the record carries none
KeywordsFromName(x) ==
    IF "semanticKeywords" \in DOMAIN x THEN x.semanticKeywords
    ELSE extractSemanticKeywords(x.name)

KeywordsOf(x) ==
    IF "semanticKeywords" \in DOMAIN x THEN x.semanticKeywords ELSE {}

\* findSemanticEquivalents, lines 105-126
findSemanticEquivalents(targetData, androidGroups, iosGroups, webGroups) ==
    LET targetKeywords == KeywordsOf(targetData)
        allGroups == androidGroups \o iosGroups \o webGroups
        hit(group) == /\ KeywordsOf(group) \cap targetKeywords # {}
                      /\ group.name # targetData.name
        names == [i \in 1..Len(allGroups) |-> allGroups[i].name]
        picked == SelectSeq([i \in 1..Len(allGroups) |-> i],
                            LAMBDA i : hit(allGroups[i]))
    IN  IF targetKeywords = {} THEN <<>>
        ELSE Dedup([k \in 1..Len(picked) |-> names[picked[k]]])

\* line 197, with the comparison with Web left out
CountsMatchAndroidIos(a, i, w) == a = i

\* line 197
CountsMatch(a, i, w) == a = i /\ i = w

\* line 196
AllPresent(a, i, w) == a > 0 /\ i > 0 /\ w > 0

\* every inconsistent identity weighs one
InconsistentWeightOne(a, i, w) == 1

\* line 210: Math.max(Android, iOS, Web)
InconsistentWeight(a, i, w) == Max3(a, i, w)

PresentList(a, i, w) ==
    SelectSeq(Platforms, LAMBDA p : (p = "Android" /\ a > 0) \/ (p = "iOS" /\ i > 0)
                                    \/ (p = "Web" /\ w > 0))

MissingList(a, i, w) ==
    SelectSeq(Platforms, LAMBDA p : (p = "Android" /\ a = 0) \/ (p = "iOS" /\ i = 0)
                                    \/ (p = "Web" /\ w = 0))

InList(seq, x) == \E k \in 1..Len(seq) : seq[k] = x

\* the body of identities.forEach, lines 186-248: the results after one identity
compareIdentity(res, data, androidGroups, iosGroups, webGroups) ==
    LET a == data.counts.Android
        i == data.counts.iOS
        w == data.counts.Web
        present == PresentList(a, i, w)
        isConsistent == AllPresent(a, i, w) /\ CountsMatch(a, i, w)
        missing == MissingList(a, i, w)
        equivalents == findSemanticEquivalents(data,
                          IF InList(missing, "Android") THEN androidGroups ELSE <<>>,
                          IF InList(missing, "iOS") THEN iosGroups ELSE <<>>,
                          IF InList(missing, "Web") THEN webGroups ELSE <<>>)
        rescued == ~AllPresent(a, i, w) /\ equivalents # <<>>
        weight == InconsistentWeight(a, i, w)
    IN  IF isConsistent
        THEN [res EXCEPT
                !.consistent = @ + a,
                !.mapping = Append(@,
                    [name |-> data.name, platforms |-> present,
                     counts |-> <<a, i, w>>, icon |-> "check",
                     details |-> [kind |-> "perfect", list |-> <<>>]])]
        ELSE [res EXCEPT
                !.inconsistent = IF rescued THEN (@ + weight) - Max3(a, i, w)
                                 ELSE @ + weight,
                !.consistent = IF rescued THEN @ + Max3(a, i, w) ELSE @,
                !.mapping = Append(@,
                    [name |-> data.name, platforms |-> present,
                     counts |-> <<a, i, w>>, icon |-> "warning",
                     details |->
                        IF ~AllPresent(a, i, w)
                        THEN IF equivalents # <<>>
                             THEN [kind |-> "alternative", list |-> equivalents]
                             ELSE [kind |-> "missing", list |-> missing]
                        ELSE IF ~CountsMatch(a, i, w)
                             THEN [kind |-> "count_mismatch", list |-> <<>>]
                             ELSE [kind |-> "", list |-> <<>>]])]

RECURSIVE compareEach(_, _, _, _, _)
compareEach(res, identities, androidGroups, iosGroups, webGroups) ==
    IF identities = <<>> THEN res
    ELSE compareEach(
            compareIdentity(res, Head(identities), androidGroups, iosGroups, webGroups),
            Tail(identities), androidGroups, iosGroups, webGroups)

PlatformTotals(f) ==
    [total |-> Len(f.groups), text |-> Len(f.text), buttons |-> Len(f.buttons)]

\* compareFeatures(androidFeatures, iosFeatures, webFeatures), lines 128-256
compareFeatures(androidFeatures, iosFeatures, webFeatures) ==
    LET identities ==
            trackAll(trackAll(trackAll(<<>>, "Android", androidFeatures.groups),
                              "iOS", iosFeatures.groups),
                     "Web", webFeatures.groups)
        start == [android |-> PlatformTotals(androidFeatures),
                  ios |-> PlatformTotals(iosFeatures),
                  web |-> PlatformTotals(webFeatures),
                  consistent |-> 0, inconsistent |-> 0, mapping |-> <<>>]
    IN  compareEach(start, identities, androidFeatures.groups, iosFeatures.groups,
                    webFeatures.groups)

(***************************************************************************)
(* Documents analysed: a DOCUMENT root over a row of widgets               *)
(***************************************************************************)
sLabel == <<"L","a","b","e","l">>
sHello == <<"H","e","l","l","o">>
sGoButton == <<"G","o"," ","B","u","t","t","o","n">>
sDocument == <<"D","o","c","u","m","e","n","t">>
sSignIn == <<"S","i","g","n"," ","I","n">>
sLoginButton == <<"L","o","g","i","n"," ","B","u","t","t","o","n">>

WidgetKinds == {"searchBar", "searchIcon", "card"}

\* the widget of a kind in slot k of a document (ids are unique in a document)
Widget(kind, k) ==
    IF kind = "searchBar"
    THEN Node("FRAME", sSearchBar, 10 * k, <<>>,
              <<Node("TEXT", sLabel, 10 * k + 1, sHello, <<>>),
                Node("RECTANGLE", sGoButton, 10 * k + 2, <<>>, <<>>)>>)
    ELSE IF kind = "searchIcon"
    THEN Node("COMPONENT", sSearchIcon, 10 * k, <<>>, <<>>)
    ELSE Node("FRAME", sCard, 10 * k, <<>>,
              <<Node("TEXT", sLabel, 10 * k + 1, sHello, <<>>),
                Node("TEXT", sLabel, 10 * k + 2, sHello, <<>>)>>)

DocumentOf(kinds) ==
    Node("DOCUMENT", sDocument, 0, <<>>, [k \in 1..Len(kinds) |-> Widget(kinds[k], k)])

DocPool ==
    {DocumentOf(kinds) : kinds \in UNION {[1..n -> WidgetKinds] : n \in 0..MaxWidgets}}

\* Example scenario 1 of the specification
ScenarioAndroid ==
    Node("DOCUMENT", sDocument, 0, <<>>,
         <<Node("FRAME", sSearchBar, 10, <<>>,
                <<Node("TEXT", sLabel, 11, sHello, <<>>),
                  Node("RECTANGLE", sGoButton, 12, <<>>, <<>>)>>)>>)
ScenarioIos ==
    Node("DOCUMENT", sDocument, 0, <<>>,
         <<Node("ICON", sSearchIcon, 10, <<>>, <<>>)>>)
ScenarioWeb ==
    Node("DOCUMENT", sDocument, 0, <<>>,
         <<Node("FRAME", sSearchInput, 10, <<>>,
                <<Node("TEXT", sLabel, 11, sHello, <<>>)>>)>>)
ScenarioDocs == [android |-> ScenarioAndroid, ios |-> ScenarioIos, web |-> ScenarioWeb]

\* Example scenario 2 of the specification: the same tree on every platform
LoginButtonDocument ==
    Node("DOCUMENT", sDocument, 0, <<>>,
         <<Node("FRAME", sLoginButton, 10, <<>>,
                <<Node("TEXT", sSignIn, 11, sSignIn, <<>>)>>)>>)
LoginButtonDocs ==
    [android |-> LoginButtonDocument, ios |-> LoginButtonDocument,
     web |-> LoginButtonDocument]

\* performAnalysis (bot-handler.js:156-162): three extractions, then the
\* comparison
performAnalysis ==
    /\ pcA = "start"
    /\ LET fa == extractFeatures(docs.android, EmptyFeatures)
           fi == extractFeatures(docs.ios, EmptyFeatures)
           fw == extractFeatures(docs.web, EmptyFeatures)
       IN  /\ features' = [android |-> fa, ios |-> fi, web |-> fw]
           /\ results' = compareFeatures(fa, fi, fw)
    /\ pcA' = "done"
    /\ UNCHANGED docs
    /\ UNCHANGED <<matcherVars, extractVars, uploadVars>>

(***************************************************************************)
(* The semantic matcher (zoho-cliq-bot/ai-matcher.js)                      *)
(***************************************************************************)
NullTimer == 0

\* Groups handed to areComponentsSimilar: built the way extractFeatures builds
\* them, so the signature is the one the recipe gives.
gCard1 == MakeGroup(sCard, 1, "FRAME", 1, 0, 2)
gCardLower1 == MakeGroup(sCardLower, 2, "FRAME", 1, 0, 2)
gMenu1 == MakeGroup(sMenu, 3, "FRAME", 1, 0, 2)
gCard2 == MakeGroup(sCard, 4, "FRAME", 2, 0, 2)

MatcherPairs ==
    {<<gCard1, g2>> : g2 \in {gCard1, gCardLower1, gMenu1, gCard2}}

\* lines 114-127: the deterministic filters, in the order the code applies them
RecipeDiffers(group1, group2) ==
    \/ group1.recipe.text # group2.recipe.text
    \/ group1.recipe.buttons # group2.recipe.buttons

\* the same object, not the same name and signature
SameObject(group1, group2) == group1 = group2

ExactMatch(group1, group2) ==
    /\ group1.name = group2.name
    /\ group1.signature = group2.signature

\* a fast path that forgets the recipe filter
FastPathNoRecipeFilter(group1, group2) ==
    IF ExactMatch(group1, group2) THEN "true" ELSE "queue"

FastPath(group1, group2) ==
    IF RecipeDiffers(group1, group2) THEN "false"
    ELSE IF ExactMatch(group1, group2) THEN "true"
    ELSE "queue"

\* line 130: const id = `${group1.name}__${group2.name}`
PairId(group1, group2) == group1.name \o <<"_", "_">> \o group2.name

\* a timeout is set on every call
AlwaysNeedsTimer(timer) == TRUE

\* line 140: if (!flushTimer)
NeedsTimer(timer) == timer = NullTimer

\* line 142: comparisonQueue.splice(0) removes and returns every element
\* splice(0, 1): only the head leaves the queue
SpliceHead(queue) ==
    IF queue = <<>> THEN [removed |-> <<>>, rest |-> <<>>]
    ELSE [removed |-> <<Head(queue)>>, rest |-> Tail(queue)]

\* slice(0): every element is returned and every element stays queued
SliceAll(queue) == [removed |-> queue, rest |-> queue]

SpliceAll(queue) == [removed |-> queue, rest |-> <<>>]

\* line 143: flushTimer = null
\* the handle is left in flushTimer after the flush
TimerKeptAfterFlush == flushTimer

TimerAfterFlush == NullTimer

NewPromise(group1, group2) ==
    [c1 |-> group1, c2 |-> group2, state |-> "pending", value |-> FALSE,
     resolves |-> 0, window |-> 0, batch |-> 0, pos |-> 0, how |-> "none",
     own |-> FALSE, parsed |-> FALSE]

\* resolve(v): the first call settles the promise, later calls change nothing
Resolve(p, v, how) ==
    IF p.state = "pending"
    THEN [p EXCEPT !.state = "resolved", !.value = v, !.how = how,
                   !.resolves = p.resolves + 1]
    ELSE [p EXCEPT !.resolves = p.resolves + 1]

\* areComponentsSimilar(group1, group2), lines 109-163
areComponentsSimilar(group1, group2) ==
    /\ Len(promises) < MaxCalls
    /\ LET call == Len(promises) + 1
           p == NewPromise(group1, group2)
           path == FastPath(group1, group2)
       IN  IF path = "false"
           THEN /\ promises' = Append(promises, Resolve(p, FALSE, "fast"))
                /\ UNCHANGED <<comparisonQueue, flushTimer, timers, timerSeq>>
           ELSE IF path = "true"
           THEN /\ promises' = Append(promises, Resolve(p, TRUE, "fast"))
                /\ UNCHANGED <<comparisonQueue, flushTimer, timers, timerSeq>>
           ELSE /\ comparisonQueue' = Append(comparisonQueue,
                        [id |-> PairId(group1, group2), c1 |-> group1,
                         c2 |-> group2, resolve |-> call])
                /\ IF NeedsTimer(flushTimer)
                   THEN /\ timerSeq' = timerSeq + 1
                        /\ flushTimer' = timerSeq + 1
                        /\ timers' = timers \cup {timerSeq + 1}
                   ELSE UNCHANGED <<flushTimer, timers, timerSeq>>
                /\ promises' = Append(promises,
                        [p EXCEPT !.window = IF NeedsTimer(flushTimer)
                                             THEN timerSeq + 1 ELSE timerSeq])
    /\ UNCHANGED oracleLog
    /\ UNCHANGED <<analyzeVars, extractVars, uploadVars>>

\* The timeout callback up to its first await (lines 141-146 and, inside
\* batchStructuralMatch, lines 18-67): drain the queue, clear the timer and
\* post the batch.  Timeouts of equal delay fire in creation order.
TimerFire ==
    /\ timers # {}
    /\ LET t == CHOOSE x \in timers : \A y \in timers : x <= y
           sp == SpliceAll(comparisonQueue)
           batch == sp.removed
           b == Len(oracleLog) + 1
       IN  /\ timers' = timers \ {t}
           /\ comparisonQueue' = sp.rest
           /\ flushTimer' = TimerAfterFlush
           /\ IF batch = <<>>
              THEN UNCHANGED <<oracleLog, promises>>   \* line 18: no request
              ELSE /\ oracleLog' = Append(oracleLog,
                          [timer |-> t, pairs |-> batch, posts |-> 1,
                           status |-> "post1"])
                   /\ promises' = [c \in 1..Len(promises) |->
                          IF \E k \in 1..Len(batch) : batch[k].resolve = c
                          THEN [promises[c] EXCEPT
                                  !.batch = b,
                                  !.pos = CHOOSE k \in 1..Len(batch) :
                                              batch[k].resolve = c]
                          ELSE promises[c]]
    /\ UNCHANGED timerSeq
    /\ UNCHANGED <<analyzeVars, extractVars, uploadVars>>

\* ---- the oracle's answer
AnswerLetters == {"Y", "n"}
NoLine == "-"

\* A response for a batch of k pairs: for each index 1..k+1 either no line or
\* one line "<index>:<letter>", the lines in index order.
Responses(k) == [1..(k + 1) -> AnswerLetters \cup {NoLine}]

ResponseLines(resp) ==
    LET all == [i \in DOMAIN resp |-> [num |-> i, yn |-> resp[i]]]
    IN  SelectSeq(all, LAMBDA l : l.yn # NoLine)

UpperLetter(c) ==
    IF \E i \in 1..Len(LowerChars) : LowerChars[i] = c
    THEN UpperChars[CHOOSE i \in 1..Len(LowerChars) : LowerChars[i] = c]
    ELSE c

\* Map.prototype.set / get
MapSet(m, k, v) == [x \in (DOMAIN m) \cup {k} |-> IF x = k THEN v ELSE m[x]]
MapHas(m, k) == k \in DOMAIN m

\* lines 80-95: every line that matches /(\d+):([YN])/i sets, under the id of
\* the pair at that index, whether the letter upper-cased is Y
RECURSIVE ParseLines(_, _, _)
ParseLines(lines, pairs, resultMap) ==
    IF lines = <<>> THEN resultMap
    ELSE LET line == Head(lines)
             idx == line.num - 1
             val == UpperLetter(line.yn) = "Y"
         IN  IF idx + 1 \in 1..Len(pairs)
             THEN ParseLines(Tail(lines), pairs,
                             MapSet(resultMap, pairs[idx + 1].id, val))
             ELSE ParseLines(Tail(lines), pairs, resultMap)

EmptyMap == [x \in {} |-> FALSE]

batchStructuralMatchResult(pairs, resp) ==
    ParseLines(ResponseLines(resp), pairs, EmptyMap)

\* line 149: results.get(item.id) ?? false
VerdictFor(resultMap, item) ==
    IF MapHas(resultMap, item.id) THEN resultMap[item.id] ELSE FALSE

\* line 156: item.c1.name.toLowerCase() === item.c2.name.toLowerCase()
\* a fallback that compares the names as they are
FallbackCaseSensitive(item) == item.c1.name = item.c2.name

FallbackVerdict(item) == ToLowerCase(item.c1.name) = ToLowerCase(item.c2.name)

\* what the response holds at a pair's own index (kept beside the promise so
\* that the verdict delivered can be compared with it)
VerdictAt(resp, pos) == UpperLetter(resp[pos]) = "Y"

\* whether the response holds a line for a pair's own index
HasLineAt(resp, pos) == resp[pos] # NoLine

InFlight(b) == b \in 1..Len(oracleLog) /\ oracleLog[b].status \in {"post1", "post2"}

\* lines 148-150: every item of the batch is resolved from the result map
OracleAnswer(b, resp) ==
    /\ InFlight(b)
    /\ resp \in Responses(Len(oracleLog[b].pairs))
    /\ LET batch == oracleLog[b].pairs
           resultMap == batchStructuralMatchResult(batch, resp)
       IN  promises' = [c \in 1..Len(promises) |->
              IF promises[c].batch = b
              THEN [Resolve(promises[c],
                            VerdictFor(resultMap, batch[promises[c].pos]), "oracle")
                        EXCEPT !.own = VerdictAt(resp, promises[c].pos),
                               !.parsed = HasLineAt(resp, promises[c].pos)]
              ELSE promises[c]]
    /\ oracleLog' = [oracleLog EXCEPT ![b].status = "answered"]
    /\ UNCHANGED <<comparisonQueue, flushTimer, timers, timerSeq>>
    /\ UNCHANGED <<analyzeVars, extractVars, uploadVars>>

\* no catch block: the rejection leaves the timeout callback and the item's
\* resolve is never called
FailureEscapes(p, v) == p

\* lines 151-159: the catch block resolves the item
FailureCaught(p, v) == Resolve(p, v, "fallback")

Fallback(b) ==
    /\ promises' = [c \in 1..Len(promises) |->
          IF promises[c].batch = b
          THEN FailureCaught(promises[c],
                             FallbackVerdict(oracleLog[b].pairs[promises[c].pos]))
          ELSE promises[c]]
    /\ oracleLog' = [oracleLog EXCEPT ![b].status = "failed"]
    /\ UNCHANGED <<comparisonQueue, flushTimer, timers, timerSeq>>
    /\ UNCHANGED <<analyzeVars, extractVars, uploadVars>>

\* lines 68-74: the first post is refused with 401, the token is refreshed
\* and the same prompt is posted again
OracleUnauthorized(b) ==
    /\ InFlight(b)
    /\ oracleLog[b].status = "post1"
    /\ oracleLog' = [oracleLog EXCEPT ![b].status = "post2", ![b].posts = 2]
    /\ UNCHANGED <<comparisonQueue, flushTimer, timers, timerSeq, promises>>
    /\ UNCHANGED <<analyzeVars, extractVars, uploadVars>>

\* lines 69-71: 401, and execSync('node refresh-token.js') throws
RefreshFails(b) ==
    /\ InFlight(b)
    /\ oracleLog[b].status = "post1"
    /\ Fallback(b)

\* lines 75-77 (first post, any other error) and line 74 (second post, any
\* error): batchStructuralMatch rejects
OracleError(b) ==
    /\ InFlight(b)
    /\ Fallback(b)

\* line 81: response.data.response is not a string, split throws
OracleMalformed(b) ==
    /\ InFlight(b)
    /\ Fallback(b)

MatcherInit ==
    /\ comparisonQueue = <<>>
    /\ flushTimer = NullTimer
    /\ timers = {}
    /\ timerSeq = 0
    /\ promises = <<>>
    /\ oracleLog = <<>>

AnalyzeIdle ==
    /\ docs = <<>>
    /\ features = <<>>
    /\ results = <<>>
    /\ pcA = "idle"

ExtractIdle ==
    /\ tree = <<>>
    /\ structOut = <<>>
    /\ flatOut = <<>>
    /\ hierOut = <<>>
    /\ pcX = {}
    /\ rerunOut = <<>>
    /\ enhOut = <<>>
    /\ thrown = {}

UploadIdle ==
    /\ userSessions = <<>>
    /\ response = <<>>
    /\ jobs = <<>>

InitMatcher == MatcherInit /\ AnalyzeIdle /\ ExtractIdle /\ UploadIdle

NextMatcher ==
    \/ \E pr \in MatcherPairs : areComponentsSimilar(pr[1], pr[2])
    \/ TimerFire
    \/ \E b \in 1..Len(oracleLog) :
          \E resp \in Responses(Len(oracleLog[b].pairs)) : OracleAnswer(b, resp)
    \/ \E b \in 1..Len(oracleLog) : OracleUnauthorized(b)
    \/ \E b \in 1..Len(oracleLog) : RefreshFails(b)
    \/ \E b \in 1..Len(oracleLog) : OracleError(b)
    \/ \E b \in 1..Len(oracleLog) : OracleMalformed(b)

SpecMatcher == InitMatcher /\ [][NextMatcher]_vars

MatcherIdle ==
    /\ comparisonQueue = <<>>
    /\ flushTimer = NullTimer
    /\ timers = {}
    /\ timerSeq = 0
    /\ promises = <<>>
    /\ oracleLog = <<>>

InitAnalyze ==
    /\ \/ docs \in [android : DocPool, ios : DocPool, web : DocPool]
       \/ docs = ScenarioDocs
       \/ docs = LoginButtonDocs
    /\ features = <<>>
    /\ results = <<>>
    /\ pcA = "start"
    /\ MatcherIdle
    /\ ExtractIdle
    /\ UploadIdle

NextAnalyze == performAnalysis

SpecAnalyze == InitAnalyze /\ [][NextAnalyze]_vars

\* The claim's provisos as fairness: an outstanding timeout fires, and a
\* posted request settles (answer, error, or 401 followed by the second post).
OracleSettles ==
    \E b \in 1..Len(oracleLog) :
        \/ \E resp \in Responses(Len(oracleLog[b].pairs)) : OracleAnswer(b, resp)
        \/ OracleUnauthorized(b)
        \/ RefreshFails(b)
        \/ OracleError(b)
        \/ OracleMalformed(b)

SpecMatcherLive ==
    /\ InitMatcher
    /\ [][NextMatcher]_vars
    /\ WF_vars(TimerFire)
    /\ WF_vars(OracleSettles)

(***************************************************************************)
(* compareComponentsWithAI (zoho-cliq-bot/ai-matcher.js:172-273)           *)
(***************************************************************************)
\* a group whose signature does not spell its recipe
gCardOdd == [gCard1 EXCEPT !.signature = <<"T", "9", "B", "9">>]

AIGroupPool == {gCard1, gCard2, gMenu1, gCardOdd}

\* the groups of one platform, with the node ids of that platform's file
AIGroupLists(base) ==
    {[k \in 1..Len(l) |-> [l[k] EXCEPT !.id = base + 10 * k + l[k].id]] :
        l \in UNION {[1..n -> AIGroupPool] : n \in 0..MaxWidgets}}

\* lines 175-198
StartResults(androidGroups, iosGroups, webGroups) ==
    [android |-> [total |-> Len(androidGroups), text |-> 0, buttons |-> 0],
     ios |-> [total |-> Len(iosGroups), text |-> 0, buttons |-> 0],
     web |-> [total |-> Len(webGroups), text |-> 0, buttons |-> 0],
     consistent |-> 0, inconsistent |-> 0,
     mapping |-> [text |-> <<>>, buttons |-> <<>>, recipes |-> <<>>]]

\* lines 201-205: new Set([...names]) keeps the first-seen order
AllNames(groups) ==
    Dedup([k \in 1..Len(groups.android) |-> groups.android[k].name]
          \o [k \in 1..Len(groups.ios) |-> groups.ios[k].name]
          \o [k \in 1..Len(groups.web) |-> groups.web[k].name])

\* groups.find(g => g.name === name), lines 211-213
FindByName(groups, name) ==
    LET found == SelectSeq(groups, LAMBDA g : g.name = name)
    IN  IF found = <<>> THEN <<>> ELSE <<Head(found)>>

\* one call of areComponentsSimilar (lines 109-163) on the module state st
SimilarCall(st, group1, group2) ==
    LET call == Len(st.promises) + 1
        p == NewPromise(group1, group2)
        path == FastPath(group1, group2)
        fresh == NeedsTimer(st.timer)
    IN  IF path = "false"
        THEN [st EXCEPT !.promises = Append(@, Resolve(p, FALSE, "fast"))]
        ELSE IF path = "true"
        THEN [st EXCEPT !.promises = Append(@, Resolve(p, TRUE, "fast"))]
        ELSE [queue |-> Append(st.queue,
                        [id |-> PairId(group1, group2), c1 |-> group1,
                         c2 |-> group2, resolve |-> call]),
              timer |-> IF fresh THEN st.seq + 1 ELSE st.timer,
              timers |-> IF fresh THEN st.timers \cup {st.seq + 1} ELSE st.timers,
              seq |-> IF fresh THEN st.seq + 1 ELSE st.seq,
              promises |-> Append(st.promises,
                        [p EXCEPT !.window = IF fresh THEN st.seq + 1 ELSE st.seq])]

\* lines 226-247 and 249-264: the entry pushed for a name
MappingEntry(name, platforms, icon, details) ==
    [name |-> name, platforms |-> platforms, icon |-> icon, details |-> details]

\* lines 222-247: the three verdicts are in
WithVerdicts(res, name, allMatch) ==
    IF allMatch
    THEN [res EXCEPT !.consistent = @ + 1,
                     !.mapping.text = Append(@,
                         MappingEntry(name, Platforms, "check", "perfect"))]
    ELSE [res EXCEPT !.inconsistent = @ + 1,
                     !.mapping.text = Append(@,
                         MappingEntry(name, Platforms, "warning", "mismatch"))]

\* the name the loop of line 210 is at: every name passed has pushed one
\* entry
NextNameIndex == Len(results.mapping.text) + 1

LastThree(ps) == {Len(ps) - 2, Len(ps) - 1, Len(ps)}

\* one round of the loop of lines 210-265, up to its await
compareNextName ==
    /\ pcA = "comparing"
    /\ NextNameIndex <= Len(AllNames(features))
    /\ LET name == AllNames(features)[NextNameIndex]
           android == FindByName(features.android, name)
           ios == FindByName(features.ios, name)
           web == FindByName(features.web, name)
           a == IF android # <<>> THEN 1 ELSE 0
           i == IF ios # <<>> THEN 1 ELSE 0
           w == IF web # <<>> THEN 1 ELSE 0
       IN  IF a + i + w = 3
           THEN LET st0 == [queue |-> comparisonQueue, timer |-> flushTimer,
                            timers |-> timers, seq |-> timerSeq,
                            promises |-> promises]
                    st1 == SimilarCall(st0, android[1], ios[1])
                    st2 == SimilarCall(st1, android[1], web[1])
                    st3 == SimilarCall(st2, ios[1], web[1])
                    settled == \A c \in LastThree(st3.promises) :
                                  st3.promises[c].state = "resolved"
                IN  /\ comparisonQueue' = st3.queue
                    /\ flushTimer' = st3.timer
                    /\ timers' = st3.timers
                    /\ timerSeq' = st3.seq
                    /\ promises' = st3.promises
                    /\ IF settled
                       THEN /\ results' = WithVerdicts(results, name,
                                   \A c \in LastThree(st3.promises) :
                                       st3.promises[c].value)
                            /\ UNCHANGED pcA
                       ELSE /\ pcA' = "awaiting"
                            /\ UNCHANGED results
           ELSE /\ results' =
                     [results EXCEPT
                        !.inconsistent = @ + 1,
                        !.mapping.text = Append(@,
                            MappingEntry(name, PresentList(a, i, w), "warning",
                                         "missing"))]
                /\ UNCHANGED <<comparisonQueue, flushTimer, timers, timerSeq,
                               promises, pcA>>
    /\ UNCHANGED <<oracleLog, docs, features>>
    /\ UNCHANGED <<extractVars, uploadVars>>

\* line 222: Promise.all resumes the loop when its three promises are settled
resumeWithVerdicts ==
    /\ pcA = "awaiting"
    /\ \A c \in LastThree(promises) : promises[c].state = "resolved"
    /\ results' = WithVerdicts(results, AllNames(features)[NextNameIndex],
                               \A c \in LastThree(promises) : promises[c].value)
    /\ pcA' = "comparing"
    /\ UNCHANGED <<docs, features>>
    /\ UNCHANGED <<matcherVars, extractVars, uploadVars>>

\* lines 268-272: the loop is over, the results are returned
returnResults ==
    /\ pcA = "comparing"
    /\ NextNameIndex > Len(AllNames(features))
    /\ pcA' = "done"
    /\ UNCHANGED <<docs, features, results>>
    /\ UNCHANGED <<matcherVars, extractVars, uploadVars>>

InitCompareAI ==
    /\ MatcherInit
    /\ docs = <<>>
    /\ features \in [android : AIGroupLists(100), ios : AIGroupLists(200),
                      web : AIGroupLists(300)]
    /\ results = StartResults(features.android, features.ios, features.web)
    /\ pcA = "comparing"
    /\ ExtractIdle
    /\ UploadIdle

NextCompareAI ==
    \/ compareNextName
    \/ resumeWithVerdicts
    \/ returnResults
    \/ TimerFire
    \/ OracleSettles

SpecCompareAI == InitCompareAI /\ [][NextCompareAI]_vars

(***************************************************************************)
(* analyzeWithHierarchicalAI (zoho-cliq-bot/hierarchical-ai-analyzer.js)   *)
(***************************************************************************)
\* a card of a page: its name and its detailed string
PageCard(name, detailedString) == [name |-> name, detailedString |-> detailedString]

Page(pageName, cards) == [pageName |-> pageName, cards |-> cards]

HomeCards == {<<>>, <<PageCard("Login", "T1")>>, <<PageCard("Login", "T2")>>}

\* the pages of one platform
PageLists ==
    {<<>>} \cup {<<Page("Home", c)>> : c \in HomeCards}
    \cup {<<Page("Home", c), Page("Settings", <<PageCard("Theme", "T1")>>)>> :
             c \in HomeCards}

\* lines 231-235: new Set of the page names, in first-seen order
AllPageNames(pages) ==
    Dedup([k \in 1..Len(pages.android) |-> pages.android[k].pageName]
          \o [k \in 1..Len(pages.ios) |-> pages.ios[k].pageName]
          \o [k \in 1..Len(pages.web) |-> pages.web[k].pageName])

\* pages.find(p => p.pageName === pageName), lines 240-242; its cards, or
\* none where the platform has no such page (createCompact, lines 253-262)
CardsOfPage(pages, pageName) ==
    LET found == SelectSeq(pages, LAMBDA q : q.pageName = pageName)
    IN  IF found = <<>> THEN <<>> ELSE Head(found).cards

\* lines 216-226
StartFinalResults ==
    [android |-> [total |-> 0], ios |-> [total |-> 0], web |-> [total |-> 0],
     consistent |-> 0, inconsistent |-> 0,
     mapping |-> [text |-> <<>>, buttons |-> <<>>, recipes |-> <<>>]]

\* how one call of extractCardsWithAI ends (lines 13-78): no call for a
\* platform without cards, a JSON array of features, an empty array, a
\* response without an array, or a rejection of callCatalystAI
ExtractOutcomes == {"skipped", "json", "empty", "unparsed", "throws"}

\* the features the oracle names carry no detailed string (lines 51-55);
\* the original cards returned for an unparsed response do (lines 58-66)
ExtractedCards(cards, outcome) ==
    IF outcome = "json"
    THEN [k \in 1..Len(cards) |-> PageCard(cards[k].name, "")]
    ELSE IF outcome = "unparsed" THEN cards
    ELSE <<>>

\* createFallbackExtraction, lines 271-280
WithFallbackExtraction(extracted, cards) ==
    IF extracted = <<>> /\ cards # <<>>
    THEN [k \in 1..Len(cards) |-> PageCard(cards[k].name, "")]
    ELSE extracted

\* one match of a comparison and its summary
Match(name, status) == [name |-> name, status |-> status]

Summary(perfect, mismatches, missing) ==
    [perfectMatches |-> perfect, mismatches |-> mismatches, missing |-> missing]

\* fallbackComparison, lines 153-206
fallbackComparison(androidCards, iosCards, webCards) ==
    LET all == androidCards \o iosCards \o webCards
        allNames == Dedup([k \in 1..Len(all) |-> all[k].name])
        first(cards, name) == SelectSeq(cards, LAMBDA c : c.name = name)
        status(name) ==
            LET a == first(androidCards, name)
                i == first(iosCards, name)
                w == first(webCards, name)
            IN  IF a # <<>> /\ i # <<>> /\ w # <<>>
                THEN IF a[1].detailedString = i[1].detailedString
                        /\ i[1].detailedString = w[1].detailedString
                     THEN "perfect" ELSE "structural_mismatch"
                ELSE "missing"
        matches == [k \in 1..Len(allNames) |-> Match(allNames[k], status(allNames[k]))]
        count(st) == Len(SelectSeq(matches, LAMBDA x : x.status = st))
    IN  [matches |-> matches, hasSummary |-> TRUE,
         summary |-> Summary(count("perfect"), count("structural_mismatch"),
                             count("missing"))]

\* what the oracle may answer to the comparison prompt: an object with
\* matches and summary, or one without summary
OracleComparisons ==
    {[matches |-> <<Match("LOGIN", "perfect")>>, hasSummary |-> TRUE,
      summary |-> Summary(1, 0, 0)],
     [matches |-> <<Match("LOGIN", "missing")>>, hasSummary |-> TRUE,
      summary |-> Summary(0, 0, 1)],
     [matches |-> <<Match("LOGIN", "perfect")>>, hasSummary |-> FALSE,
      summary |-> Summary(0, 0, 0)]}

\* convertToStandardFormat, lines 329-383, with the page's name put before
\* each entry's name (lines 309-311)
IconOf(status) ==
    IF status = "perfect" THEN "check"
    ELSE IF status = "platform_specific" THEN "phone"
    ELSE IF status = "missing" THEN "cross"
    ELSE "warning"

convertToStandardFormat(aiComparison, pageName) ==
    [consistent |-> aiComparison.summary.perfectMatches,
     inconsistent |-> aiComparison.summary.mismatches + aiComparison.summary.missing,
     text |-> [k \in 1..Len(aiComparison.matches) |->
                  [page |-> pageName, name |-> aiComparison.matches[k].name,
                   icon |-> IconOf(aiComparison.matches[k].status)]]]

\* the rejection leaves the loop and the analysis
RejectedAfterPageFailure == "rejected"

\* lines 318-320: catch (error) logs and the loop goes on
AfterPageFailure == "page"

\* the page the loop of line 237 is at: every page passed has left an entry
\* in the log
PageIndex == Len(features.log) + 1

CurrentPage == AllPageNames(docs)[PageIndex]

LogEntry(pageName, outcome, page) ==
    [pageName |-> pageName, outcome |-> outcome, consistent |-> page.consistent,
     inconsistent |-> page.inconsistent, entries |-> Len(page.text)]

NothingAdded == [consistent |-> 0, inconsistent |-> 0, text |-> <<>>]

\* lines 237-248: the page's cards are added to the per-platform totals
beginPage ==
    /\ pcA = "page"
    /\ PageIndex <= Len(AllPageNames(docs))
    /\ results' =
          [results EXCEPT
             !.android.total = @ + Len(CardsOfPage(docs.android, CurrentPage)),
             !.ios.total = @ + Len(CardsOfPage(docs.ios, CurrentPage)),
             !.web.total = @ + Len(CardsOfPage(docs.web, CurrentPage))]
    /\ pcA' = "extracting"
    /\ UNCHANGED <<docs, features>>
    /\ UNCHANGED <<matcherVars, extractVars, uploadVars>>

\* lines 265-292: Promise.all of the three extractions settles
extractionSettles(out) ==
    /\ pcA = "extracting"
    /\ \A p \in {"android", "ios", "web"} :
          (CardsOfPage(docs[p], CurrentPage) = <<>>) <=> (out[p] = "skipped")
    /\ LET extracted ==
              [p \in {"android", "ios", "web"} |->
                  WithFallbackExtraction(
                      ExtractedCards(CardsOfPage(docs[p], CurrentPage), out[p]),
                      CardsOfPage(docs[p], CurrentPage))]
       IN  IF \E p \in {"android", "ios", "web"} : out[p] = "throws"
           THEN /\ features' =
                     [log |-> Append(features.log,
                                 LogEntry(CurrentPage, "failed", NothingAdded)),
                      extracted |-> <<>>]
                /\ pcA' = AfterPageFailure
           ELSE IF \A p \in {"android", "ios", "web"} : extracted[p] = <<>>
           THEN /\ features' =
                     [log |-> Append(features.log,
                                 LogEntry(CurrentPage, "skipped", NothingAdded)),
                      extracted |-> <<>>]
                /\ pcA' = "page"
           ELSE /\ features' = [features EXCEPT !.extracted = extracted]
                /\ pcA' = "comparing"
    /\ UNCHANGED <<docs, results>>
    /\ UNCHANGED <<matcherVars, extractVars, uploadVars>>

\* lines 295-316: the comparison is parsed, converted and merged
pageMerged(aiComparison) ==
    /\ aiComparison.hasSummary
    /\ LET pageResults == convertToStandardFormat(aiComparison, CurrentPage)
       IN  /\ results' =
                 [results EXCEPT
                    !.consistent = @ + pageResults.consistent,
                    !.inconsistent = @ + pageResults.inconsistent,
                    !.mapping.text = @ \o pageResults.text]
           /\ features' =
                 [log |-> Append(features.log,
                             LogEntry(CurrentPage, "merged", pageResults)),
                  extracted |-> <<>>]
    /\ pcA' = "page"
    /\ UNCHANGED docs
    /\ UNCHANGED <<matcherVars, extractVars, uploadVars>>

\* the oracle answers the comparison prompt with JSON
comparisonAnswered(aiComparison) ==
    /\ pcA = "comparing"
    /\ pageMerged(aiComparison)

\* lines 138-148: a response without a JSON object goes to fallbackComparison
comparisonUnparsed ==
    /\ pcA = "comparing"
    /\ pageMerged(fallbackComparison(features.extracted.android,
                                     features.extracted.ios,
                                     features.extracted.web))

\* callCatalystAI rejects (lines 427-439), or the answer has no summary and
\* convertToStandardFormat throws on summary.perfectMatches (line 350)
comparisonFails(aiComparison) ==
    /\ pcA = "comparing"
    /\ ~aiComparison.hasSummary
    /\ features' =
          [log |-> Append(features.log, LogEntry(CurrentPage, "failed", NothingAdded)),
           extracted |-> <<>>]
    /\ pcA' = AfterPageFailure
    /\ UNCHANGED <<docs, results>>
    /\ UNCHANGED <<matcherVars, extractVars, uploadVars>>

\* a rejected call is an answer without anything in it
OracleRejects == [matches |-> <<>>, hasSummary |-> FALSE, summary |-> Summary(0, 0, 0)]

\* line 322: return finalResults
returnFinalResults ==
    /\ pcA = "page"
    /\ PageIndex > Len(AllPageNames(docs))
    /\ pcA' = "done"
    /\ UNCHANGED <<docs, features, results>>
    /\ UNCHANGED <<matcherVars, extractVars, uploadVars>>

InitPages ==
    /\ docs \in [android : PageLists, ios : PageLists, web : PageLists]
    /\ features = [log |-> <<>>, extracted |-> <<>>]
    /\ results = StartFinalResults
    /\ pcA = "page"
    /\ MatcherIdle
    /\ ExtractIdle
    /\ UploadIdle

NextPages ==
    \/ beginPage
    \/ \E out \in [{"android", "ios", "web"} -> ExtractOutcomes] : extractionSettles(out)
    \/ \E c \in OracleComparisons : comparisonAnswered(c)
    \/ comparisonUnparsed
    \/ \E c \in OracleComparisons \cup {OracleRejects} : comparisonFails(c)
    \/ returnFinalResults

SpecPages == InitPages /\ [][NextPages]_vars

(***************************************************************************)
(* The three extraction modes on one tree                                  *)
(***************************************************************************)
sLbl1 == <<"l","b","l","1">>
sPaddedSignIn == <<" ","S","i","g","n"," ","I","n">>
sLoginBtn == <<"L","o","g","i","n"," ","B","t","n">>

sItemCard == <<"I","t","e","m"," ","C","a","r","d">>
sHeader == <<"H","e","a","d","e","r">>
sScreen == <<"S","c","r","e","e","n">>

LeafKinds == {"text", "verb", "button", "card", "component",
              "blank", "spaces", "cardBlank", "verbPadded", "namedBtn",
              "cardInCard", "twoCards"}
WrapperTypes == {"FRAME", "INSTANCE"}

\* the node that ends a chain, at depth d (ids are 10 * depth + child index)
Leaf(kind, d) ==
    IF kind = "text" THEN Node("TEXT", sLabel, 10 * d, sHello, <<>>)
    ELSE IF kind = "verb" THEN Node("TEXT", sLabel, 10 * d, sSignIn, <<>>)
    ELSE IF kind = "button" THEN Node("RECTANGLE", sGoButton, 10 * d, <<>>, <<>>)
    ELSE IF kind = "component" THEN Node("COMPONENT", sSearchIcon, 10 * d, <<>>, <<>>)
    ELSE IF kind = "blank" THEN Node("TEXT", sLbl1, 10 * d, <<>>, <<>>)
    ELSE IF kind = "spaces" THEN Node("TEXT", sLbl1, 10 * d, <<" ", " ">>, <<>>)
    ELSE IF kind = "verbPadded" THEN Node("TEXT", sLabel, 10 * d, sPaddedSignIn, <<>>)
    ELSE IF kind = "namedBtn" THEN Node("TEXT", sLoginBtn, 10 * d, sHello, <<>>)
    ELSE IF kind = "cardInCard"
    THEN Node("FRAME", sCard, 10 * d, <<>>,
              <<Node("TEXT", sLabel, 10 * d + 1, sHello, <<>>),
                Node("FRAME", sItemCard, 10 * d + 2, <<>>,
                     <<Node("TEXT", sLabel, 10 * d + 3, sHello, <<>>),
                       Node("RECTANGLE", sGoButton, 10 * d + 4, <<>>, <<>>)>>)>>)
    ELSE IF kind = "twoCards"
    THEN Node("FRAME", sScreen, 10 * d, <<>>,
              <<Node("FRAME", sCard, 10 * d + 1, <<>>,
                     <<Node("TEXT", sLabel, 10 * d + 2, sHello, <<>>),
                       Node("TEXT", sLabel, 10 * d + 3, sSignIn, <<>>)>>),
                Node("FRAME", sHeader, 10 * d + 4, <<>>,
                     <<Node("TEXT", sLabel, 10 * d + 5, sHello, <<>>),
                       Node("TEXT", sLabel, 10 * d + 6, sHello, <<>>)>>)>>)
    ELSE IF kind = "cardBlank"
    THEN Node("FRAME", sCard, 10 * d, <<>>,
              <<Node("TEXT", sLabel, 10 * d + 1, sHello, <<>>),
                Node("RECTANGLE", sGoButton, 10 * d + 2, <<>>, <<>>),
                Node("TEXT", sLbl1, 10 * d + 3, <<>>, <<>>)>>)
    ELSE Node("FRAME", sCard, 10 * d, <<>>,
              <<Node("TEXT", sLabel, 10 * d + 1, sHello, <<>>),
                Node("RECTANGLE", sGoButton, 10 * d + 2, <<>>, <<>>)>>)

\* d levels of single-child nesting (levels k..d-1 named L<k>) over a leaf
RECURSIVE Chain(_, _, _, _)
Chain(wrapper, kind, k, d) ==
    IF k = d THEN Leaf(kind, d)
    ELSE Node(wrapper, <<"L">> \o NumToStr(k), 10 * k, <<>>,
              <<Chain(wrapper, kind, k + 1, d)>>)

TreePool ==
    {Chain(wrapper, kind, 0, d) :
        wrapper \in WrapperTypes, kind \in LeafKinds, d \in 0..MaxChain}

AllModes == {"structural", "flat", "hierarchical"}

\* a name the JSON leaves out (undefined), as distinct from the empty string
UndefinedName == <<"undefined">>

\* node.name || '' at every node (part_010 lines 15-17, 23, 26, 54; part_008
\* line 16; hierarchical-extractor.js lines 15, 50, 64)
RECURSIVE OrEmptyNames(_)
OrEmptyNames(node) ==
    [node EXCEPT !.name = IF node.name = UndefinedName THEN <<>> ELSE node.name,
                 !.children = [k \in 1..Len(node.children) |->
                                  OrEmptyNames(node.children[k])]]

\* every node the traversals reach, null children included
RECURSIVE ReachedNodes(_)
ReachedNodes(node) ==
    {node} \cup UNION {ReachedNodes(node.children[k]) : k \in 1..Len(node.children)}

\* part_010 lines 13-18: the filters read c.type and c.name of every child
\* of a container, which is a TypeError for a null child
StructuralThrows(node) ==
    \E n \in ReachedNodes(node) \ {NullNode} :
        /\ n.type \in ContainerTypes
        /\ \E k \in 1..Len(n.children) : n.children[k] = NullNode

(***************************************************************************)
(* The enhanced analyzer (src/utils/analyzerEnhanced.js)                   *)
(***************************************************************************)
NamedTypes == {"COMPONENT", "INSTANCE", "FRAME"}

\* lines 36-37: node.name.toLowerCase() is a TypeError for a missing name
NameThrows(node) == node.type \in NamedTypes /\ node.name = UndefinedName

isButtonName(name) ==
    LET n == ToLowerCase(name)
    IN  Includes(n, sButton) \/ Includes(n, sBtn) \/ Includes(n, sCta)

isInputName(name) ==
    LET n == ToLowerCase(name)
    IN  \/ Includes(n, <<"i","n","p","u","t">>)
        \/ Includes(n, <<"f","i","e","l","d">>)
        \/ Includes(n, <<"t","e","x","t","f","i","e","l","d">>)
        \/ Includes(n, <<"s","e","a","r","c","h">>)

isIconName(name) ==
    LET n == ToLowerCase(name)
    IN  Includes(n, sIcon) \/ Includes(n, <<"i","c","o">>)

\* lines 43 and 61: children.find(child => child.type === 'TEXT') reads the
\* type of every child up to the first TEXT child
FindThrows(node) ==
    /\ node.type \in NamedTypes
    /\ isButtonName(node.name) \/ isInputName(node.name)
    /\ \E k \in 1..Len(node.children) :
          /\ node.children[k] = NullNode
          /\ \A j \in 1..(k - 1) : node.children[j].type # "TEXT"

EnhancedThrows(node) ==
    \E n \in ReachedNodes(node) \ {NullNode} : NameThrows(n) \/ FindThrows(n)

\* lines 22-83: the entries one node adds to features.all (image fills are
\* not part of the trees modelled here)
EnhancedFeaturesOfNode(node) ==
    LET texts == SelectSeq(node.children, LAMBDA c : c.type = "TEXT")
        childText == IF texts # <<>> THEN Head(texts).characters ELSE <<>>
        named == node.type \in NamedTypes
        entry(category, text) ==
            [id |-> node.id, name |-> node.name, type |-> node.type,
             text |-> text, category |-> category]
    IN  (IF node.type = "TEXT" /\ node.characters # <<>>
         THEN <<entry("text", node.characters)>> ELSE <<>>)
        \o (IF named /\ isButtonName(node.name)
            THEN <<entry("button", childText)>> ELSE <<>>)
        \o (IF named /\ isInputName(node.name)
            THEN <<entry("input", childText)>> ELSE <<>>)
        \o (IF node.type \in {"COMPONENT", "INSTANCE"} /\ isIconName(node.name)
            THEN <<entry("icon", IF isButtonName(node.name) \/ isInputName(node.name)
                                 THEN childText ELSE <<>>)>>
            ELSE <<>>)

\* traverse(node), lines 19-89
RECURSIVE traverseEnhanced(_, _)
RECURSIVE traverseEnhancedEach(_, _)
traverseEnhanced(node, all) ==
    IF node = NullNode THEN all
    ELSE traverseEnhancedEach(node.children, all \o EnhancedFeaturesOfNode(node))

traverseEnhancedEach(nodes, all) ==
    IF nodes = <<>> THEN all
    ELSE traverseEnhancedEach(Tail(nodes), traverseEnhanced(Head(nodes), all))

\* extractFeatures(documentNode), lines 9-93
extractFeaturesEnhanced(documentNode) ==
    LET all == traverseEnhanced(documentNode, <<>>)
        of(category) == SelectSeq(all, LAMBDA f : f.category = category)
    IN  [text |-> of("text"), buttons |-> of("button"), inputs |-> of("input"),
         icons |-> of("icon"), all |-> all]

(***************************************************************************)
(* Extraction of trees with malformed nodes                                *)
(***************************************************************************)
MalformedKinds ==
    {"null", "noName", "noType", "noChildren", "nullChild", "text", "button"}

\* the node of a kind in slot k of a document
Malformed(kind, k) ==
    IF kind = "null" THEN NullNode
    ELSE IF kind = "noName"
    THEN Node("FRAME", UndefinedName, 10 * k, <<>>,
              <<Node("TEXT", sLabel, 10 * k + 1, sHello, <<>>),
                Node("TEXT", sLabel, 10 * k + 2, sSignIn, <<>>)>>)
    ELSE IF kind = "noType" THEN Node("undefined", sLabel, 10 * k, sHello, <<>>)
    ELSE IF kind = "noChildren" THEN Node("FRAME", sCard, 10 * k, <<>>, <<>>)
    ELSE IF kind = "nullChild"
    THEN Node("FRAME", sCard, 10 * k, <<>>,
              <<NullNode, Node("TEXT", sLabel, 10 * k + 1, sHello, <<>>)>>)
    ELSE IF kind = "text" THEN Node("TEXT", sLabel, 10 * k, sHello, <<>>)
    ELSE Node("INSTANCE", sGoButton, 10 * k, <<>>,
              <<Node("TEXT", sLabel, 10 * k + 1, sSignIn, <<>>)>>)

MalformedPool ==
    {NullNode} \cup
    {Node("DOCUMENT", sDocument, 0, <<>>,
          [k \in 1..Len(kinds) |-> Malformed(kinds[k], k)]) :
        kinds \in [1..1 -> MalformedKinds] \cup [1..2 -> MalformedKinds]}

RunStructural ==
    /\ "structural" \notin pcX
    /\ IF StructuralThrows(tree)
       THEN thrown' = thrown \cup {"structural"} /\ UNCHANGED structOut
       ELSE /\ structOut' = extractFeatures(OrEmptyNames(tree), EmptyFeatures)
            /\ UNCHANGED thrown
    /\ pcX' = pcX \cup {"structural"}
    /\ UNCHANGED <<tree, flatOut, hierOut, rerunOut, enhOut>>
    /\ UNCHANGED <<matcherVars, analyzeVars, uploadVars>>

RunFlat ==
    /\ "flat" \notin pcX
    /\ flatOut' = extractFeaturesFlat(OrEmptyNames(tree))
    /\ pcX' = pcX \cup {"flat"}
    /\ UNCHANGED <<tree, structOut, hierOut, rerunOut, enhOut, thrown>>
    /\ UNCHANGED <<matcherVars, analyzeVars, uploadVars>>

RunHierarchical ==
    /\ "hierarchical" \notin pcX
    /\ hierOut' = extractHierarchicalFeatures(OrEmptyNames(tree))
    /\ pcX' = pcX \cup {"hierarchical"}
    /\ UNCHANGED <<tree, structOut, flatOut, rerunOut, enhOut, thrown>>
    /\ UNCHANGED <<matcherVars, analyzeVars, uploadVars>>

InitExtract ==
    /\ tree \in TreePool
    /\ structOut = <<>>
    /\ flatOut = <<>>
    /\ hierOut = <<>>
    /\ pcX = {}
    /\ rerunOut = <<>>
    /\ enhOut = <<>>
    /\ thrown = {}
    /\ MatcherIdle
    /\ AnalyzeIdle
    /\ UploadIdle

\* one accumulator shared by every call: a run starts from what the last left
FeaturesLeftBehind(left) == left

\* part_010 line 6: the default value of the parameter is built at each call
DefaultFeatures(left) == EmptyFeatures

\* a second run of a mode on the same tree, after the first
RerunStructural ==
    /\ "structural" \in pcX
    /\ "structural" \notin thrown
    /\ ~MapHas(rerunOut, "structural")
    /\ rerunOut' = MapSet(rerunOut, "structural",
                          extractFeatures(OrEmptyNames(tree), DefaultFeatures(structOut)))
    /\ UNCHANGED <<tree, structOut, flatOut, hierOut, pcX, enhOut, thrown>>
    /\ UNCHANGED <<matcherVars, analyzeVars, uploadVars>>

RerunFlat ==
    /\ "flat" \in pcX
    /\ ~MapHas(rerunOut, "flat")
    /\ rerunOut' = MapSet(rerunOut, "flat", extractFeaturesFlat(OrEmptyNames(tree)))
    /\ UNCHANGED <<tree, structOut, flatOut, hierOut, pcX, enhOut, thrown>>
    /\ UNCHANGED <<matcherVars, analyzeVars, uploadVars>>

RerunHierarchical ==
    /\ "hierarchical" \in pcX
    /\ ~MapHas(rerunOut, "hierarchical")
    /\ rerunOut' = MapSet(rerunOut, "hierarchical",
                          extractHierarchicalFeatures(OrEmptyNames(tree)))
    /\ UNCHANGED <<tree, structOut, flatOut, hierOut, pcX, enhOut, thrown>>
    /\ UNCHANGED <<matcherVars, analyzeVars, uploadVars>>

RunEnhanced ==
    /\ "enhanced" \notin pcX
    /\ IF EnhancedThrows(tree)
       THEN thrown' = thrown \cup {"enhanced"} /\ UNCHANGED enhOut
       ELSE /\ enhOut' = extractFeaturesEnhanced(tree)
            /\ UNCHANGED thrown
    /\ pcX' = pcX \cup {"enhanced"}
    /\ UNCHANGED <<tree, structOut, flatOut, hierOut, rerunOut>>
    /\ UNCHANGED <<matcherVars, analyzeVars, uploadVars>>

InitMalformed ==
    /\ tree \in MalformedPool
    /\ structOut = <<>>
    /\ flatOut = <<>>
    /\ hierOut = <<>>
    /\ pcX = {}
    /\ rerunOut = <<>>
    /\ enhOut = <<>>
    /\ thrown = {}
    /\ MatcherIdle
    /\ AnalyzeIdle
    /\ UploadIdle

NextExtract ==
    \/ RunStructural
    \/ RunFlat
    \/ RunHierarchical
    \/ RerunStructural
    \/ RerunFlat
    \/ RerunHierarchical

SpecExtract == InitExtract /\ [][NextExtract]_vars

NextMalformed == NextExtract \/ RunEnhanced

SpecMalformed == InitMalformed /\ [][NextMalformed]_vars

(***************************************************************************)
(* The bot's sessions: file upload (bot-handler.js) and analysis of        *)
(* fetched files (test-simple.js, /bot/parse-and-analyze without the AI    *)
(* switches)                                                               *)
(***************************************************************************)
Users == {"u1", "u2"}

\* a parsed JSON value: null, an object without "document", or an object
\* whose document is a tree
NullJson == [present |-> FALSE, document |-> NullNode]
JsonWithoutDocument == [present |-> TRUE, document |-> NullNode]
JsonOf(doc) == [present |-> TRUE, document |-> doc]

UploadDocs == {DocumentOf(<<"card">>)}
JsonPool == {JsonWithoutDocument} \cup {JsonOf(d) : d \in UploadDocs}

\* what a request carries as its file: nothing, bytes that are no JSON, or JSON
NoFile == [kind |-> "none", json |-> NullJson]
GarbageFile == [kind |-> "garbage", json |-> NullJson]
JsonFile(j) == [kind |-> "json", json |-> j]
FilePool == {NoFile, GarbageFile} \cup {JsonFile(j) : j \in JsonPool}

\* what a fetch from the design service ends in: an error or the file's JSON
FetchFailed == [ok |-> FALSE, json |-> NullJson]
Fetched(j) == [ok |-> TRUE, json |-> j]
FetchPool == {FetchFailed} \cup {Fetched(j) : j \in JsonPool}

NoFiles == [android |-> NullJson, ios |-> NullJson, web |-> NullJson]
NoResults == [consistent |-> 0, inconsistent |-> 0]

\* userSessions.get(userId) when the map has no such key
NoSession ==
    [exists |-> FALSE, step |-> "", hasFiles |-> FALSE, files |-> NoFiles,
     hasResults |-> FALSE, results |-> NoResults]

\* bot-handler.js:42-49 and 107-114
NewSession(step) ==
    [exists |-> TRUE, step |-> step, hasFiles |-> TRUE, files |-> NoFiles,
     hasResults |-> FALSE, results |-> NoResults]

\* test-simple.js:597-600: the session is replaced by {results, timestamp}
ResultsSession(res) ==
    [exists |-> TRUE, step |-> "", hasFiles |-> FALSE, files |-> NoFiles,
     hasResults |-> TRUE, results |-> res]

Reply(handler, user, status, kind, lacking) ==
    [handler |-> handler, user |-> user, status |-> status, kind |-> kind,
     lacking |-> lacking, report |-> NoResults]

\* the report built from a session's results (bot-handler.js:180-186)
ReportReply(user, res) ==
    [Reply("download", user, 200, "report", {}) EXCEPT !.report = res]

\* a reset that empties the whole map
AllSessionsDeleted(sessions, userId) == [u \in DOMAIN sessions |-> NoSession]

\* userSessions.delete(userId), bot-handler.js:60 and test-simple.js:344
deleteSession(sessions, userId) == [sessions EXCEPT ![userId] = NoSession]

\* the barrier left out: the comparison runs from the first file on
AnyFileUploaded(files) ==
    files.android.present \/ files.ios.present \/ files.web.present

\* bot-handler.js:121-123
allFilesUploaded(files) ==
    files.android.present /\ files.ios.present /\ files.web.present

\* performAnalysis(files), bot-handler.js:156-162
performAnalysisOf(files) ==
    compareFeatures(extractFeatures(files.android.document, EmptyFeatures),
                    extractFeatures(files.ios.document, EmptyFeatures),
                    extractFeatures(files.web.document, EmptyFeatures))

\* handleFileUpload, bot-handler.js:86-151
handleFileUpload(userId, platform, file) ==
    /\ IF file.kind = "none"
       THEN /\ response' = Reply("upload", userId, 400, "no_file", {})
            /\ UNCHANGED userSessions
       ELSE IF file.kind = "garbage"
       THEN /\ response' = Reply("upload", userId, 500, "failed", {})
            /\ UNCHANGED userSessions
       ELSE IF file.json.document = NullNode
       THEN /\ response' = Reply("upload", userId, 400, "invalid_structure", {platform})
            /\ UNCHANGED userSessions
       ELSE LET session == IF userSessions[userId].exists THEN userSessions[userId]
                           ELSE NewSession("uploading")
            IN  IF ~session.hasFiles
                THEN \* session.files is undefined: the assignment throws
                     /\ response' = Reply("upload", userId, 500, "failed", {})
                     /\ UNCHANGED userSessions
                ELSE LET files == [session.files EXCEPT ![platform] = file.json]
                     IN  IF allFilesUploaded(files)
                         THEN /\ userSessions' =
                                   [userSessions EXCEPT ![userId] =
                                       [session EXCEPT !.files = files,
                                                       !.hasResults = TRUE,
                                                       !.results = performAnalysisOf(files),
                                                       !.step = "complete"]]
                              /\ response' = Reply("upload", userId, 200, "results", {})
                         ELSE /\ userSessions' =
                                   [userSessions EXCEPT ![userId] =
                                       [session EXCEPT !.files = files]]
                              /\ response' =
                                   Reply("upload", userId, 200, "upload_status", {})
    /\ UNCHANGED <<jobs, matcherVars, analyzeVars, extractVars>>

BotCommands == {"start", "reset", "status", "hello"}

\* handleBotMessage, bot-handler.js:35-81
handleBotMessage(userId, text) ==
    /\ LET created == IF userSessions[userId].exists THEN userSessions
                      ELSE [userSessions EXCEPT ![userId] = NewSession("initial")]
       IN  IF text = "start"
           THEN /\ userSessions' = created
                /\ response' = Reply("message", userId, 200, "welcome", {})
           ELSE IF text = "reset"
           THEN /\ userSessions' = deleteSession(created, userId)
                /\ response' = Reply("message", userId, 200, "reset", {})
           ELSE IF text = "status"
           THEN /\ userSessions' = created
                /\ response' =
                     IF created[userId].hasFiles
                     THEN Reply("message", userId, 200, "status", {})
                     ELSE Reply("message", userId, 200, "error", {})
           ELSE /\ userSessions' = created
                /\ response' = Reply("message", userId, 200, "unknown", {})
    /\ UNCHANGED <<jobs, matcherVars, analyzeVars, extractVars>>

LackingDocument(a, i, w) ==
    {p \in {"android", "ios", "web"} :
        [android |-> a, ios |-> i, web |-> w][p].json.document = NullNode}

\* /bot/parse-and-analyze, test-simple.js:429-626, structural matching only
\* (lines 582-594): the three files are fetched, then extracted and compared
parseAndAnalyze(user_id, android, ios, web) ==
    /\ IF ~(android.ok /\ ios.ok /\ web.ok)
       THEN /\ response' = Reply("parse", user_id, 200, "error", {})
            /\ UNCHANGED userSessions
       ELSE LET files == [android |-> android.json, ios |-> ios.json, web |-> web.json]
            IN  /\ userSessions' =
                     [userSessions EXCEPT ![user_id] =
                         ResultsSession(performAnalysisOf(files))]
                /\ response' = Reply("parse", user_id, 200, "results",
                                     LackingDocument(android, ios, web))
    /\ UNCHANGED <<jobs, matcherVars, analyzeVars, extractVars>>

\* /bot/function with name 'reset', test-simple.js:343-347
botFunctionReset(userId) ==
    /\ userSessions' = deleteSession(userSessions, userId)
    /\ response' = Reply("function", userId, 200, "reset", {})
    /\ UNCHANGED <<jobs, matcherVars, analyzeVars, extractVars>>

\* bot-handler.js:176: if (!session || !session.results)
HoldsResults(session) == session.exists /\ session.hasResults

\* GET /bot/download/:userId, generatePDFReport as a route handler
\* (bot-handler.js:168-186)
generatePDFReport(userId) ==
    /\ LET session == userSessions[userId]
       IN  IF ~HoldsResults(session)
           THEN response' = Reply("download", userId, 404, "no_results", {})
           ELSE response' = ReportReply(userId, session.results)
    /\ UNCHANGED <<userSessions, jobs, matcherVars, analyzeVars, extractVars>>

InitUpload ==
    /\ userSessions = [u \in Users |-> NoSession]
    /\ response = Reply("none", "u1", 0, "none", {})
    /\ jobs = <<>>
    /\ MatcherIdle
    /\ AnalyzeIdle
    /\ ExtractIdle

NextUpload ==
    \/ \E u \in Users, p \in {"android", "ios", "web"}, f \in FilePool :
          handleFileUpload(u, p, f)
    \/ \E u \in Users, t \in BotCommands : handleBotMessage(u, t)
    \/ \E u \in Users, a \in FetchPool, i \in FetchPool, w \in FetchPool :
          parseAndAnalyze(u, a, i, w)
    \/ \E u \in Users : botFunctionReset(u)
    \/ \E u \in Users : generatePDFReport(u)

SpecUpload == InitUpload /\ [][NextUpload]_vars

(***************************************************************************)
(* Overlapping URL-based analyses (test-simple.js /bot/parse-and-analyze)  *)
(***************************************************************************)
\* the files two different requests point at
OverlapFiles ==
    {[android |-> JsonOf(DocumentOf(<<k>>)), ios |-> JsonOf(DocumentOf(<<k>>)),
      web |-> JsonOf(DocumentOf(<<k>>))] : k \in {"card", "searchBar"}}

\* lines 388-426: the message is parsed and answered at once; with three
\* file keys the analysis is handed to setImmediate
parseAndAnalyzeRequest(user_id, keysFound, files) ==
    /\ Len(jobs) < MaxJobs
    /\ IF ~keysFound
       THEN /\ response' = Reply("parse", user_id, 200, "error", {})
            /\ UNCHANGED jobs
       ELSE /\ response' = Reply("parse", user_id, 200, "started", {})
            /\ jobs' = Append(jobs, [user |-> user_id, files |-> files,
                                     state |-> "running"])
    /\ UNCHANGED <<userSessions, matcherVars, analyzeVars, extractVars>>

\* lines 429-600: the background callback of request k ends, after its
\* fetches, sleeps and retries, by storing its results in the session
backgroundAnalysis(k) ==
    /\ jobs[k].state = "running"
    /\ userSessions' =
          [userSessions EXCEPT ![jobs[k].user] =
              ResultsSession(performAnalysisOf(jobs[k].files))]
    /\ jobs' = [jobs EXCEPT ![k].state = "stored"]
    /\ UNCHANGED <<response, matcherVars, analyzeVars, extractVars>>

\* lines 620-625: a fetch of request k fails for good; nothing is stored
backgroundError(k) ==
    /\ jobs[k].state = "running"
    /\ jobs' = [jobs EXCEPT ![k].state = "failed"]
    /\ UNCHANGED <<userSessions, response, matcherVars, analyzeVars, extractVars>>

NextOverlap ==
    \/ \E u \in Users, found \in BOOLEAN, f \in OverlapFiles :
          parseAndAnalyzeRequest(u, found, f)
    \/ \E k \in 1..Len(jobs) : backgroundAnalysis(k)
    \/ \E k \in 1..Len(jobs) : backgroundError(k)
    \/ \E u \in Users : generatePDFReport(u)

SpecOverlap == InitUpload /\ [][NextOverlap]_vars

(***************************************************************************)
(* Claims about extraction                                                 *)
(***************************************************************************)
\* the nodes of a tree with their depths
RECURSIVE NodesWithDepth(_, _)
NodesWithDepth(node, depth) ==
    {[node |-> node, depth |-> depth]}
        \cup UNION {NodesWithDepth(node.children[k], depth + 1) :
                        k \in 1..Len(node.children)}

TreeDepth(node) ==
    LET all == NodesWithDepth(node, 0)
    IN  CHOOSE d \in {n.depth : n \in all} : \A n \in all : n.depth <= d

\* the flat features of the nodes no deeper than the cap
ShallowFlatFeatures(node) ==
    UNION {FlatFeaturesOfNode(n.node) :
            n \in {m \in NodesWithDepth(node, 0) : m.depth <= MaxDepth}}

ShallowIds(node) ==
    {n.node.id : n \in {m \in NodesWithDepth(node, 0) : m.depth <= MaxDepth}}

IdsOf(seq) == {seq[k].id : k \in 1..Len(seq)}

StructuralWithinCap ==
    IdsOf(structOut.groups) \cup IdsOf(structOut.text) \cup IdsOf(structOut.buttons)
        \subseteq ShallowIds(tree)

FlatWithinCap == flatOut.all \subseteq ShallowFlatFeatures(tree)

HierarchicalWithinCap ==
    /\ \A k \in 1..Len(Flatten(hierOut.fullTree)) :
          /\ Flatten(hierOut.fullTree)[k].depth <= MaxDepth
          /\ Flatten(hierOut.fullTree)[k].id \in ShallowIds(tree)
    /\ \A k \in 1..Len(hierOut.cards) :
          /\ hierOut.cards[k].depth <= MaxDepth
          /\ hierOut.cards[k].id \in ShallowIds(tree)

\* C10 (as claimed): on a tree nested deeper than the traversal cap every
\* extraction mode completes and its output holds nothing derived from a
\* node beyond the cap.
C10_NothingBeyondTheCap ==
    TreeDepth(tree) > MaxDepth =>
        /\ "structural" \in pcX => StructuralWithinCap
        /\ "flat" \in pcX => FlatWithinCap
        /\ "hierarchical" \in pcX => HierarchicalWithinCap

\* the part of C10 the code keeps: the hierarchical mode drops what lies
\* beyond depth 15 and looks for cards no deeper than 10
HierarchicalRespectsCap ==
    "hierarchical" \in pcX =>
        /\ HierarchicalWithinCap
        /\ \A k \in 1..Len(hierOut.cards) : hierOut.cards[k].depth <= MaxCardDepth

\* a TEXT node whose characters are empty or whitespace only
IsBlankText(node) == node.type = "TEXT" /\ Trim(node.characters) = <<>>

\* the tree with every blank TEXT node taken out
RECURSIVE WithoutBlankText(_)
WithoutBlankText(node) ==
    IF node = NullNode \/ IsBlankText(node) THEN NullNode
    ELSE LET kept == SelectSeq(node.children, LAMBDA c : ~IsBlankText(c))
         IN  [node EXCEPT !.children =
                 [k \in 1..Len(kept) |-> WithoutBlankText(kept[k])]]

HasBlankText(node) == \E n \in NodesWithDepth(node, 0) : IsBlankText(n.node)

BlankTextFlatUnchanged == flatOut = extractFeaturesFlat(WithoutBlankText(tree))

BlankTextRecipeUnchanged ==
    LET bare == extractFeatures(WithoutBlankText(tree), EmptyFeatures)
    IN  /\ structOut.text = bare.text
        /\ \A k \in 1..Len(structOut.groups), j \in 1..Len(bare.groups) :
              structOut.groups[k].id = bare.groups[j].id =>
                  structOut.groups[k].recipe.text = bare.groups[j].recipe.text

BlankTextTallyUnchanged ==
    LET bare == extractHierarchicalFeatures(WithoutBlankText(tree))
    IN  \A k \in 1..Len(hierOut.cards), j \in 1..Len(bare.cards) :
            hierOut.cards[k].id = bare.cards[j].id =>
                hierOut.cards[k].inventory.texts = bare.cards[j].inventory.texts

\* C11: a TEXT node with empty or whitespace-only characters contributes
\* nothing in any extraction mode: the flat features, the text count of every
\* structural group's recipe and the text tally of every card are what they
\* are for the tree without that node.
C11_BlankTextContributesNothing ==
    HasBlankText(tree) =>
        /\ "flat" \in pcX => BlankTextFlatUnchanged
        /\ "structural" \in pcX => BlankTextRecipeUnchanged
        /\ "hierarchical" \in pcX => BlankTextTallyUnchanged

\* the part of C11 the code keeps: the flat mode skips a blank TEXT node
BlankTextSkippedByFlat ==
    (HasBlankText(tree) /\ "flat" \in pcX) => BlankTextFlatUnchanged

\* the TEXT nodes of the tree that carry visible characters
VisibleTexts(node) ==
    {n.node : n \in {m \in NodesWithDepth(node, 0) :
                        m.node.type = "TEXT" /\ Trim(m.node.characters) # <<>>}}

\* the class the claim gives a TEXT node: by its name, or by its trimmed text
\* being one of the button verbs
ClaimedTextClass(node) ==
    IF \/ Includes(ToLowerCase(node.name), sButton)
       \/ Includes(ToLowerCase(node.name), sBtn)
       \/ ToLowerCase(Trim(node.characters)) \in ButtonVerbs
    THEN "BUTTON" ELSE "TEXT"

ClassifiedAs(node, class) ==
    LET feature == [name |-> Trim(node.characters), type |-> class]
    IN  /\ feature \in flatOut.all
        /\ class = "BUTTON" => feature \in flatOut.buttons
        /\ class = "TEXT" => feature \in flatOut.text

\* C12: a TEXT node with non-empty trimmed characters is a BUTTON exactly
\* when its name contains button or btn, or its trimmed text is, whatever the
\* case, one of the nine button verbs; otherwise it is a TEXT.
C12_TextClassification ==
    "flat" \in pcX =>
        \A node \in VisibleTexts(tree) :
            /\ ClassifiedAs(node, ClaimedTextClass(node))
            /\ \A f \in flatOut.all :
                  f.name = Trim(node.characters) => f.type = ClaimedTextClass(node)

\* the part of C12 the code keeps: the claim's rule for the texts that have
\* no white space around them
UnpaddedTextClassification ==
    "flat" \in pcX =>
        \A node \in VisibleTexts(tree) :
            Trim(node.characters) = node.characters =>
                ClassifiedAs(node, ClaimedTextClass(node))

\* the ids of the nodes below the node with the given id
IdsBelow(id) ==
    UNION {{m.node.id : m \in NodesWithDepth(n.node, 0)} \ {id} :
              n \in {x \in NodesWithDepth(tree, 0) : x.node.id = id}}

CardIds == {hierOut.cards[k].id : k \in 1..Len(hierOut.cards)}

TwoCardsEmitted == "hierarchical" \in pcX /\ Len(hierOut.cards) = 2

\* the same elements the same number of times, in any order
SameBag(seq1, seq2) ==
    /\ Len(seq1) = Len(seq2)
    /\ \A k \in 1..Len(seq1) : CountOf(seq1, seq1[k]) = CountOf(seq2, seq1[k])

DetailedStrings(cards) ==
    [k \in 1..Len(cards) |-> [id |-> cards[k].id, text |-> cards[k].detailedString]]

GroupNodes(node) ==
    {n.node : n \in {m \in NodesWithDepth(node, 0) :
        /\ m.node.type \in {"FRAME", "GROUP", "COMPONENT", "INSTANCE"}
        /\ \/ Len(m.node.children) >= 2
           \/ m.node.type \in {"COMPONENT", "INSTANCE"}}}

DirectTexts(node) ==
    Cardinality({k \in 1..Len(node.children) : node.children[k].type = "TEXT"})

DirectButtons(node) ==
    Cardinality({k \in 1..Len(node.children) :
        LET n == ToLowerCase(node.children[k].name)
        IN  Includes(n, <<"b","u","t","t","o","n">>) \/ Includes(n, <<"b","t","n">>)
                \/ Includes(n, <<"c","t","a">>)})

\* C21: the structural mode emits one group for each FRAME, GROUP, COMPONENT
\* or INSTANCE node that has two children or more or is a COMPONENT or
\* INSTANCE, and for no other node; the recipe and the signature of a group
\* are those of the node's direct children alone.
C21_GroupsFromDirectChildren ==
    "structural" \in pcX =>
        /\ IdsOf(structOut.groups) = {n.id : n \in GroupNodes(tree)}
        /\ Len(structOut.groups) = Cardinality(GroupNodes(tree))
        /\ \A k \in 1..Len(structOut.groups) :
              \A n \in GroupNodes(tree) :
                  n.id = structOut.groups[k].id =>
                      /\ structOut.groups[k].recipe.text = DirectTexts(n)
                      /\ structOut.groups[k].recipe.buttons = DirectButtons(n)
                      /\ structOut.groups[k].recipe.total = Len(n.children)
                      /\ structOut.groups[k].signature =
                            <<"T">> \o NumToStr(DirectTexts(n))
                                \o <<"B">> \o NumToStr(DirectButtons(n))

\* a group whose subtree holds a text and a button below its direct
\* children, which its recipe does not count, under a one-child FRAME that
\* yields no group
C21_Witness ==
    /\ "structural" \in pcX
    /\ tree.type = "FRAME"
    /\ Len(tree.children) = 1
    /\ \E k \in 1..Len(structOut.groups) :
          /\ structOut.groups[k].signature = <<"T", "1", "B", "0">>
          /\ \E j \in 1..Len(structOut.groups) :
                /\ structOut.groups[j].id \in IdsBelow(structOut.groups[k].id)
                /\ structOut.groups[j].signature = <<"T", "1", "B", "1">>

\* C24: within one platform's extraction two nodes with the same feature
\* name and category give a single feature: neither the text nor the button
\* collection holds two entries with equal (name, category), in the Sets of
\* the flat extractor as in the lists of the structural one, whose lengths
\* are the per-platform totals.
C24_OneFeaturePerNameAndCategory ==
    /\ "flat" \in pcX =>
          \A f, g \in flatOut.text \cup flatOut.buttons :
              (f.name = g.name /\ f.type = g.type) => f = g
    /\ ("structural" \in pcX /\ "structural" \notin thrown) =>
          /\ \A i, j \in 1..Len(structOut.text) :
                structOut.text[i].name = structOut.text[j].name => i = j
          /\ \A i, j \in 1..Len(structOut.buttons) :
                structOut.buttons[i].name = structOut.buttons[j].name => i = j

\* the part of C24 the code keeps: the Sets of the flat extractor hold each
\* (name, category) of the tree once, however many nodes yield it
FlatHoldsEachFeatureOnce ==
    "flat" \in pcX =>
        /\ flatOut.all = UNION {FlatFeaturesOfNode(n) :
                                   n \in ReachedNodes(OrEmptyNames(tree)) \ {NullNode}}
        /\ flatOut.text \cup flatOut.buttons = flatOut.all

\* C22: no extraction mode throws on a tree with malformed nodes (children
\* missing, name missing, type missing, a null node in any place), and what
\* is well formed in the tree is still extracted.
C22_NeverThrows ==
    /\ thrown = {}
    /\ "flat" \in pcX =>
          \A n \in ReachedNodes(tree) \ {NullNode} :
              (n.type = "TEXT" /\ Trim(n.characters) # <<>>) =>
                  \E f \in flatOut.all : f.name = Trim(n.characters)

\* the part of C22 the code keeps: the flat and the hierarchical mode, and
\* every mode on a null root
TolerantModesNeverThrow ==
    /\ thrown \subseteq {"structural", "enhanced"}
    /\ tree = NullNode => thrown = {}

(***************************************************************************)
(* Claims about the sessions                                               *)
(***************************************************************************)
\* C13: a platform input without a root document is answered with an
\* explicit error and yields no comparison result; it is never analysed as
\* an empty tree.
C13_MissingDocumentIsAnError ==
    response.lacking # {} =>
        /\ response.kind \in {"invalid_structure", "error"}
        /\ response.kind # "results"

\* the part of C13 the code keeps: the upload handler rejects such a file
\* and leaves the session as it was
UploadRejectsMissingDocument ==
    [][\A u \in Users, p \in {"android", "ios", "web"} :
          handleFileUpload(u, p, JsonFile(JsonWithoutDocument)) =>
              /\ response'.status = 400
              /\ userSessions' = userSessions]_vars

\* the session's files are all there
HoldsThreeFiles(files) ==
    \A p \in {"android", "ios", "web"} : files[p].present /\ files[p].document # NullNode

\* the sessions whose results the upload flow stored (bot-handler.js:128-129)
UploadResultSessions ==
    {u \in Users : /\ userSessions[u].exists
                   /\ userSessions[u].hasResults
                   /\ userSessions[u].step = "complete"}

\* C14: the upload flow compares and stores a result only when the user's
\* session holds the Android, iOS and Web documents; a session with results
\* of this flow holds all three files, and the results are those of the files.
C14_ResultsOnlyWithThreeFiles ==
    /\ \A u \in UploadResultSessions :
          /\ userSessions[u].hasFiles
          /\ HoldsThreeFiles(userSessions[u].files)
          /\ userSessions[u].results = performAnalysisOf(userSessions[u].files)
    /\ (response.handler = "upload" /\ response.kind = "results") =>
          response.user \in UploadResultSessions
    /\ \A u \in Users :
          (userSessions[u].exists /\ userSessions[u].hasFiles
              /\ ~HoldsThreeFiles(userSessions[u].files)) =>
                  ~userSessions[u].hasResults

\* one user's third upload has just produced results while the other user's
\* session still waits for a file
C14_Witness ==
    /\ response.handler = "upload" /\ response.kind = "results"
    /\ response.user \in UploadResultSessions
    /\ \E u \in Users \ UploadResultSessions :
          /\ userSessions[u].exists
          /\ userSessions[u].files.android.present
          /\ userSessions[u].files.ios.present
          /\ ~userSessions[u].files.web.present

(***************************************************************************)
(* Claims about the matcher                                                *)
(***************************************************************************)
CallsOfWindow(w) ==
    SelectSeq([c \in 1..Len(promises) |-> c], LAMBDA c : promises[c].window = w)

\* C1: the pairs queued within one debounce window (from the call that sets
\* the timeout until it fires) leave in exactly one batchStructuralMatch
\* request, which carries all of them, in call order, and nothing else; the
\* request is posted once, or twice when the first post was refused with 401.
C1_OneRequestPerWindow ==
    \A w \in 1..timerSeq :
        w \notin timers =>
            LET entries == {b \in 1..Len(oracleLog) : oracleLog[b].timer = w}
                calls == CallsOfWindow(w)
            IN  /\ Cardinality(entries) = 1
                /\ \A b \in entries :
                      /\ Len(oracleLog[b].pairs) = Len(calls)
                      /\ \A k \in 1..Len(calls) :
                            /\ oracleLog[b].pairs[k].resolve = calls[k]
                            /\ oracleLog[b].pairs[k].c1 = promises[calls[k]].c1
                            /\ oracleLog[b].pairs[k].c2 = promises[calls[k]].c2
                      /\ oracleLog[b].posts \in {1, 2}

\* a window in which three ambiguous calls were made has been flushed
C1_Witness ==
    \E b \in 1..Len(oracleLog) :
        /\ Len(oracleLog[b].pairs) = 3
        /\ oracleLog[b].timer \notin timers

\* C2: every ambiguous pair is eventually resolved, and resolved once; a
\* queued pair always has a timeout outstanding, so a pair queued after a
\* flush (also while that batch is in flight) is flushed by a later batch.
C2_EveryPairResolvedOnce ==
    /\ [](\A c \in 1..Len(promises) : promises[c].resolves <= 1)
    /\ [](comparisonQueue # <<>> => timers # {})
    /\ \A c \in 1..MaxCalls :
          [](Len(promises) >= c =>
                <>(/\ Len(promises) >= c
                   /\ promises[c].state = "resolved"
                   /\ promises[c].resolves = 1))

\* a pair queued after the first flush was resolved by the second batch while
\* the first batch's request was still in flight
C2_Witness ==
    /\ Len(oracleLog) >= 2
    /\ oracleLog[1].status \in {"post1", "post2"}
    /\ \E c \in 1..Len(promises) :
          /\ promises[c].batch = 2
          /\ promises[c].window = 2
          /\ promises[c].state = "resolved"

\* C3 (as claimed): a pair answered by the oracle resolves with the verdict
\* the response holds at that pair's own index in the batch.
C3_OwnVerdict ==
    \A c \in 1..Len(promises) :
        promises[c].how = "oracle" => promises[c].value = promises[c].own

\* C4: when a batch's request fails, each of its pairs resolves to the
\* equality of the lower-cased names, and the step changes no promise of
\* another batch.
C4_FallbackIsNameEquality ==
    /\ [](\A c \in 1..Len(promises) :
            /\ promises[c].how = "fallback" =>
                  /\ promises[c].state = "resolved"
                  /\ promises[c].value =
                        (ToLowerCase(promises[c].c1.name) = ToLowerCase(promises[c].c2.name))
            /\ (promises[c].batch > 0 /\ oracleLog[promises[c].batch].status = "failed")
                  => promises[c].how = "fallback")
    /\ [][\A b \in 1..Len(oracleLog) :
            (oracleLog[b].status # "failed" /\ oracleLog'[b].status = "failed") =>
                \A c \in 1..Len(promises) :
                    promises[c].batch # b => promises'[c] = promises[c]]_vars

\* a failed batch resolved a pair to true (names equal up to case) while a
\* pair of another batch was still pending
C4_Witness ==
    \E c \in 1..Len(promises) :
        /\ promises[c].how = "fallback"
        /\ promises[c].value = TRUE
        /\ \E d \in 1..Len(promises) :
              /\ promises[d].batch > 0
              /\ promises[d].batch # promises[c].batch
              /\ promises[d].state = "pending"

NeverQueued(c) ==
    /\ promises[c].window = 0
    /\ promises[c].batch = 0
    /\ \A k \in 1..Len(comparisonQueue) : comparisonQueue[k].resolve # c
    /\ \A b \in 1..Len(oracleLog) :
          \A k \in 1..Len(oracleLog[b].pairs) : oracleLog[b].pairs[k].resolve # c

\* C5: a call whose groups differ in text or button count is resolved false,
\* a call whose groups agree in name and signature is resolved true, in both
\* cases at once and without the pair ever being queued or sent.
C5_FastPath ==
    \A c \in 1..Len(promises) :
        LET p == promises[c]
        IN  /\ (p.c1.recipe.text # p.c2.recipe.text
                  \/ p.c1.recipe.buttons # p.c2.recipe.buttons)
                  => (p.state = "resolved" /\ p.value = FALSE /\ NeverQueued(c))
            /\ (p.c1.name = p.c2.name /\ p.c1.signature = p.c2.signature)
                  => (p.state = "resolved" /\ p.value = TRUE /\ NeverQueued(c))

\* both fast paths were taken after an oracle request had failed
C5_Witness ==
    /\ \E b \in 1..Len(oracleLog) : oracleLog[b].status = "failed"
    /\ \E c \in 1..Len(promises) :
          /\ promises[c].how = "fast" /\ promises[c].value = TRUE
          /\ promises[c].c1.name = promises[c].c2.name
    /\ \E c \in 1..Len(promises) :
          /\ promises[c].how = "fast" /\ promises[c].value = FALSE
          /\ promises[c].c1.recipe.text # promises[c].c2.recipe.text

\* the calls whose pair went to the queue (the fast path enqueues nothing)
Enqueued == {c \in 1..Len(promises) : promises[c].window # 0}

QueueSlots(c) == {k \in 1..Len(comparisonQueue) : comparisonQueue[k].resolve = c}

BatchSlots(c) ==
    {bk \in UNION {{<<b, k>> : k \in 1..Len(oracleLog[b].pairs)} :
                        b \in 1..Len(oracleLog)} :
        oracleLog[bk[1]].pairs[bk[2]].resolve = c}

\* C15: every enqueued pair is in exactly one flushed batch: it waits in the
\* queue under an outstanding timer or it is in one batch, once; the batch is
\* the one drained by the timer of the window the pair was enqueued in, so a
\* pair enqueued after a drain is not in the drained batch.
C15_ExactlyOneBatch ==
    \A c \in Enqueued :
        /\ Cardinality(QueueSlots(c)) + Cardinality(BatchSlots(c)) = 1
        /\ QueueSlots(c) # {} => (flushTimer # NullTimer /\ flushTimer \in timers)
        /\ \A bk \in BatchSlots(c) : oracleLog[bk[1]].timer = promises[c].window

\* a pair enqueued after the first batch was drained waits for a later batch
\* while the first batch is still with the oracle
C15_Witness ==
    /\ Len(oracleLog) >= 1
    /\ InFlight(1)
    /\ \E c \in Enqueued :
          /\ QueueSlots(c) # {}
          /\ promises[c].window > oracleLog[1].timer
    /\ \E c \in Enqueued : BatchSlots(c) = {<<1, 2>>}

\* C16: at most one debounce flush timer is outstanding.
C16_OneTimer ==
    /\ Cardinality(timers) <= 1
    /\ flushTimer # NullTimer => timers = {flushTimer}

\* the second window's timer is outstanding after the first one fired
C16_Witness ==
    /\ Len(oracleLog) >= 1
    /\ timerSeq = 2
    /\ timers = {2}
    /\ flushTimer = 2

\* C17: a failed oracle call (network error, 401 with or without a working
\* token refresh, malformed response) never leaves the matcher as an
\* exception or a rejected promise: every pair of the failed batch is
\* resolved, once, with a boolean.
C17_FailuresEndInVerdicts ==
    /\ \A b \in 1..Len(oracleLog) :
          oracleLog[b].status = "failed" =>
              \A k \in 1..Len(oracleLog[b].pairs) :
                  LET p == promises[oracleLog[b].pairs[k].resolve]
                  IN  /\ p.state = "resolved"
                      /\ p.value \in BOOLEAN
                      /\ p.resolves = 1
    /\ \A c \in 1..Len(promises) : promises[c].state \in {"pending", "resolved"}

\* a batch failed on its second post (401, refreshed token, then an error)
\* and its two pairs were resolved
C17_Witness ==
    \E b \in 1..Len(oracleLog) :
        /\ oracleLog[b].status = "failed"
        /\ oracleLog[b].posts = 2
        /\ Len(oracleLog[b].pairs) = 2
        /\ \A k \in 1..2 : promises[oracleLog[b].pairs[k].resolve].how = "fallback"

\* C18: when the oracle answers a batch, a pair the response holds no
\* parseable verdict for resolves to false, and the other pairs resolve with
\* the verdicts parsed for them.
C18_UnparsedIsFalse ==
    \A c \in 1..Len(promises) :
        promises[c].how = "oracle" =>
            /\ ~promises[c].parsed => promises[c].value = FALSE
            /\ promises[c].parsed => promises[c].value = promises[c].own

\* the part of C18 the code keeps: batches whose pairs have distinct ids
UnparsedIsFalseForDistinctIds ==
    \A c \in 1..Len(promises) :
        (/\ promises[c].how = "oracle"
         /\ \A k \in 1..Len(oracleLog[promises[c].batch].pairs) :
               k # promises[c].pos =>
                   oracleLog[promises[c].batch].pairs[k].id
                       # oracleLog[promises[c].batch].pairs[promises[c].pos].id) =>
            /\ ~promises[c].parsed => promises[c].value = FALSE
            /\ promises[c].parsed => promises[c].value = promises[c].own

(***************************************************************************)
(* Claims about the reconciler                                             *)
(***************************************************************************)
PlatformKeys == {"android", "ios", "web"}

\* the identities of the extracted groups, and their occurrence counts,
\* read off the three group lists
GroupIdentities ==
    UNION {{<<features[p].groups[k].name, features[p].groups[k].signature>> :
                k \in 1..Len(features[p].groups)} : p \in PlatformKeys}

Occurrences(p, id) ==
    Cardinality({k \in 1..Len(features[p].groups) :
        /\ features[p].groups[k].name = id[1]
        /\ features[p].groups[k].signature = id[2]})

LargestCount(id) ==
    Max3(Occurrences("android", id), Occurrences("ios", id), Occurrences("web", id))

EqualEverywhere(id) ==
    /\ Occurrences("android", id) > 0
    /\ Occurrences("android", id) = Occurrences("ios", id)
    /\ Occurrences("ios", id) = Occurrences("web", id)

RECURSIVE SumOf(_, _)
SumOf(S, f) ==
    IF S = {} THEN 0
    ELSE LET x == CHOOSE y \in S : TRUE IN f[x] + SumOf(S \ {x}, f)


\* what the entries marked as an alternative implementation moved from the
\* inconsistent to the consistent total
RescuedTotal ==
    LET idx == {k \in 1..Len(results.mapping) :
                    results.mapping[k].details.kind = "alternative"}
        weight(k) == Max3(results.mapping[k].counts[1], results.mapping[k].counts[2],
                          results.mapping[k].counts[3])
    IN  SumOf(idx, [x \in idx |-> weight(x)])

C7_ConsistentIffEqualCounts ==
    pcA = "done" =>
        LET cons == {id \in GroupIdentities : EqualEverywhere(id)}
            androidCount(id) == Occurrences("android", id)
            checked == {k \in 1..Len(results.mapping) :
                            results.mapping[k].icon = "check"}
        IN  /\ results.consistent - RescuedTotal = SumOf(cons, [x \in cons |-> androidCount(x)])
            /\ results.inconsistent + RescuedTotal =
                  SumOf(GroupIdentities \ cons, [x \in GroupIdentities \ cons |-> LargestCount(x)])
            /\ Cardinality(checked) = Cardinality(cons)
            /\ \A k \in checked :
                  /\ results.mapping[k].counts[1] > 0
                  /\ results.mapping[k].counts[1] = results.mapping[k].counts[2]
                  /\ results.mapping[k].counts[2] = results.mapping[k].counts[3]
                  /\ \E id \in cons :
                        /\ id[1] = results.mapping[k].name
                        /\ androidCount(id) = results.mapping[k].counts[1]

\* an identity occurring twice on every platform was counted as consistent
\* beside an identity that is not on every platform
C7_Witness ==
    /\ pcA = "done"
    /\ \E id \in GroupIdentities :
          EqualEverywhere(id) /\ Occurrences("android", id) = 1
    /\ \E id \in GroupIdentities :
          ~EqualEverywhere(id) /\ Occurrences("android", id) = 1
    /\ results.consistent = 1
    /\ results.inconsistent > 0

\* a platform that lacks the identity holds a group sharing a semantic
\* keyword with the identity's name
Rescuable(id) ==
    \E p \in PlatformKeys :
        /\ Occurrences(p, id) = 0
        /\ \E k \in 1..Len(features[p].groups) :
              features[p].groups[k].semanticKeywords
                  \cap extractSemanticKeywords(id[1]) # {}

\* C8 (as claimed): an identity absent from a platform on which some group
\* shares a semantic keyword with it counts toward the consistent total and
\* not toward the inconsistent total.
C8_SemanticRescue ==
    pcA = "done" =>
        LET cons == {id \in GroupIdentities : EqualEverywhere(id)}
            resc == {id \in GroupIdentities : ~EqualEverywhere(id) /\ Rescuable(id)}
            androidCount(id) == Occurrences("android", id)
        IN  /\ results.consistent =
                  SumOf(cons, [x \in cons |-> androidCount(x)]) + SumOf(resc, [x \in resc |-> LargestCount(x)])
            /\ results.inconsistent =
                  SumOf(GroupIdentities \ (cons \cup resc), [x \in GroupIdentities \ (cons \cup resc) |-> LargestCount(x)])

\* C9 (as claimed): in example scenario 1 the rescue fires for the
\* 'Search Bar' identity, which is reported consistent.
C9_ScenarioRescued ==
    (pcA = "done" /\ docs = ScenarioDocs) =>
        /\ results.consistent = 1
        /\ results.inconsistent = 0
        /\ \E k \in 1..Len(results.mapping) :
              /\ results.mapping[k].name = sSearchBar
              /\ results.mapping[k].details.kind = "alternative"

\* C9 (amended): in example scenario 1 extraction yields the single group
\* 'Search Bar' (T1B1) on Android and no group on iOS or Web, the rescue does
\* not fire, and the identity is reported inconsistent, missing on iOS, Web.
C9_ScenarioMissing ==
    (pcA = "done" /\ docs = ScenarioDocs) =>
        /\ Len(features.android.groups) = 1
        /\ features.android.groups[1].name = sSearchBar
        /\ features.android.groups[1].signature = <<"T", "1", "B", "1">>
        /\ features.android.groups[1].semanticKeywords = {"search"}
        /\ features.ios.groups = <<>>
        /\ features.web.groups = <<>>
        /\ results.consistent = 0
        /\ results.inconsistent = 1
        /\ results.mapping =
              <<[name |-> sSearchBar, platforms |-> <<"Android">>,
                 counts |-> <<1, 0, 0>>, icon |-> "warning",
                 details |-> [kind |-> "missing", list |-> <<"iOS", "Web">>]]>>

C9_Witness ==
    /\ pcA = "done"
    /\ docs = ScenarioDocs
    /\ results.inconsistent = 1

\* C23 (as claimed): in example scenario 2 the FRAME 'Login Button' with the
\* single TEXT child 'Sign In' is extracted on each platform as a group with
\* buttonCount 1 and signature T0B1, and its identity is reported consistent
\* with status perfect.
C23_ScenarioPerfect ==
    (pcA = "done" /\ docs = LoginButtonDocs) =>
        /\ \A p \in {"android", "ios", "web"} :
              \E k \in 1..Len(features[p].groups) :
                  /\ features[p].groups[k].name = sLoginButton
                  /\ features[p].groups[k].recipe.buttons = 1
                  /\ features[p].groups[k].signature = <<"T", "0", "B", "1">>
        /\ results.consistent >= 1
        /\ \E k \in 1..Len(results.mapping) :
              /\ results.mapping[k].name = sLoginButton
              /\ results.mapping[k].details.kind = "perfect"

\* C23 (amended): in example scenario 2 no platform yields a group (a FRAME
\* with one child is not tracked, and buttons are counted by child name, not
\* by the text of a child): the frame is listed among the buttons and its
\* child among the texts, and the reconciler has no identity to report.
C23_ScenarioWithoutGroup ==
    (pcA = "done" /\ docs = LoginButtonDocs) =>
        /\ \A p \in {"android", "ios", "web"} :
              /\ features[p].groups = <<>>
              /\ features[p].buttons =
                    <<[name |-> sLoginButton, id |-> 10, type |-> "FRAME"]>>
              /\ features[p].text =
                    <<[name |-> sSignIn, text |-> sSignIn, id |-> 11]>>
        /\ results.consistent = 0
        /\ results.inconsistent = 0
        /\ results.mapping = <<>>
        /\ results.android = [total |-> 0, text |-> 1, buttons |-> 1]

C23_Witness ==
    /\ pcA = "done"
    /\ docs = LoginButtonDocs
    /\ Len(features.web.buttons) = 1

\* a session that exists and holds results, read off the record
SessionWithResults(session) == session.exists /\ session.hasResults

\* the requests of a user, by their place in the order of the requests
JobsOf(u) == {k \in 1..Len(jobs) : jobs[k].user = u}

LastJobOf(u) == CHOOSE k \in JobsOf(u) : \A j \in JobsOf(u) : j <= k

\* C25: when URL-based analyses of one user overlap, then after all of them
\* have finished and stored their results the user's session holds the
\* result of the analysis requested last, which is what a download returns.
C25_LatestRequestWins ==
    \A u \in Users :
        (/\ Cardinality(JobsOf(u)) >= 2
         /\ \A k \in JobsOf(u) : jobs[k].state = "stored") =>
            /\ HoldsResults(userSessions[u])
            /\ userSessions[u].results = performAnalysisOf(jobs[LastJobOf(u)].files)

\* what the code keeps of C25: the session holds the result of one of the
\* user's analyses, the one whose background callback ended last
SessionHoldsSomeRequestedResult ==
    \A u \in Users :
        HoldsResults(userSessions[u]) =>
            \E k \in JobsOf(u) :
                /\ jobs[k].state = "stored"
                /\ userSessions[u].results = performAnalysisOf(jobs[k].files)

\* C28: every session stored in userSessions has a files record with the
\* three platform slots, so that a well-formed upload is accepted and
\* recorded after any sequence of analyses, uploads and resets.
C28_EverySessionHoldsFiles ==
    \A u \in Users : userSessions[u].exists => userSessions[u].hasFiles

\* C29: a download for u answers 404 unless u's session holds results; a
\* reset for u leaves u without results, results appear only by an analysis
\* of that user, and a reset for u changes no other user's session.
C29_DownloadFollowsSession ==
    [][/\ response'.handler = "download" =>
              (response'.status = 404 <=> ~SessionWithResults(userSessions[response'.user]))
       /\ response'.kind = "reset" =>
              /\ ~SessionWithResults(userSessions'[response'.user])
              /\ \A v \in Users \ {response'.user} :
                    userSessions'[v] = userSessions[v]
       /\ \A u \in Users :
              (~SessionWithResults(userSessions[u]) /\ SessionWithResults(userSessions'[u])) =>
                  /\ response'.kind = "results"
                  /\ response'.user = u]_vars

C29_Witness ==
    /\ response.handler = "download"
    /\ response.status = 404
    /\ \E v \in Users \ {response.user} : userSessions[v].hasResults

\* every input group's signature spells its recipe
SignaturesSpellRecipes ==
    \A p \in {"android", "ios", "web"} :
        \A k \in 1..Len(features[p]) :
            features[p][k].signature =
                <<"T">> \o NumToStr(features[p][k].recipe.text)
                \o <<"B">> \o NumToStr(features[p][k].recipe.buttons)

FirstNamed(p, name) ==
    features[p][CHOOSE k \in 1..Len(features[p]) :
                    /\ features[p][k].name = name
                    /\ \A j \in 1..(k - 1) : features[p][j].name # name]

OnAllThree(name) ==
    \A p \in {"android", "ios", "web"} :
        \E k \in 1..Len(features[p]) : features[p][k].name = name

SameCounts(name) ==
    \A p, q \in {"android", "ios", "web"} :
        /\ FirstNamed(p, name).recipe.text = FirstNamed(q, name).recipe.text
        /\ FirstNamed(p, name).recipe.buttons = FirstNamed(q, name).recipe.buttons

\* C26: when every input group's signature spells its recipe, every
\* similarity check of compareComponentsWithAI resolves on the fast path
\* (nothing is enqueued, no timer is set, the oracle is never called), and a
\* name present on all three platforms is consistent exactly when the first
\* group of that name on each platform has the same text and button counts.
C26_WellFormedNeverAsksOracle ==
    SignaturesSpellRecipes =>
        /\ comparisonQueue = <<>>
        /\ flushTimer = NullTimer
        /\ timers = {}
        /\ timerSeq = 0
        /\ oracleLog = <<>>
        /\ \A c \in 1..Len(promises) : promises[c].how = "fast"
        /\ \A k \in 1..Len(results.mapping.text) :
              OnAllThree(results.mapping.text[k].name) =>
                  (results.mapping.text[k].icon = "check"
                      <=> SameCounts(results.mapping.text[k].name))

C26_Witness ==
    /\ SignaturesSpellRecipes
    /\ pcA = "done"
    /\ Len(promises) = 6
    /\ results.consistent = 1
    /\ \E k \in 1..Len(results.mapping.text) :
          /\ OnAllThree(results.mapping.text[k].name)
          /\ results.mapping.text[k].icon = "warning"

EntriesMarked(icon) ==
    {k \in 1..Len(results.mapping) : results.mapping[k].icon = icon}

PagesLogged(outcome) ==
    {k \in 1..Len(features.log) : features.log[k].outcome = outcome}

CardsOnPlatform(p) ==
    SumOf(1..Len(docs[p]), [k \in 1..Len(docs[p]) |-> Len(docs[p][k].cards)])

\* C30: an oracle failure on one page never rejects the analysis and never
\* keeps the remaining pages from being processed; the failed page adds
\* nothing to the consistent and inconsistent totals or to the mapping
\* (they are made up of the merged pages alone), and its cards are counted
\* in the per-platform totals.
C30_PageFailureIsContained ==
    /\ pcA # "rejected"
    /\ results.consistent =
          SumOf(PagesLogged("merged"),
                [k \in PagesLogged("merged") |-> features.log[k].consistent])
    /\ results.inconsistent =
          SumOf(PagesLogged("merged"),
                [k \in PagesLogged("merged") |-> features.log[k].inconsistent])
    /\ Len(results.mapping.text) =
          SumOf(PagesLogged("merged"),
                [k \in PagesLogged("merged") |-> features.log[k].entries])
    /\ \A k \in 1..Len(results.mapping.text) :
          results.mapping.text[k].page \in
              {features.log[j].pageName : j \in PagesLogged("merged")}
    /\ pcA = "done" =>
          /\ [k \in 1..Len(features.log) |-> features.log[k].pageName]
                = AllPageNames(docs)
          /\ \A p \in {"android", "ios", "web"} :
                results[p].total = CardsOnPlatform(p)

C30_Witness ==
    /\ pcA = "done"
    /\ Len(features.log) = 2
    /\ features.log[1].outcome = "failed"
    /\ features.log[2].outcome = "merged"
    /\ results.android.total = 2
    /\ results.consistent = 1

====
